---------------------------- MODULE Spec2Model ----------------------------
(***************************************************************************)
(* Saffa Team Scheduler: the row-level-security policies of the relational *)
(* store (supabase/migrations), the requests the client pages issue        *)
(* against it, and the role and task operations built on top of them.      *)
(***************************************************************************)
EXTENDS Integers, Sequences, FiniteSets, TLC

---------------------------------------------------------------------------
(* Bounds of the model *)

\* number of row slots of the store (ids handed out by gen_random_uuid())
MaxRows == 1

---------------------------------------------------------------------------
(* Domains *)

NULL == "NULL"

\* authenticated principals (auth.uid() values)
Principals == {"u1", "u2"}

PrincipalOrNull == Principals \cup {NULL}

RowIds == 1..MaxRows

\* tables whose rows carry an owning principal in user_id
OwnedTables == {"projects", "tasks", "calendar_notes", "content_log", "live_manual_log"}

\* tables of the row store other than user_profiles
Tables == OwnedTables \cup {"templates", "activity_log"}

\* free-text payload of a row (name, title, note, host_name, action)
Texts == {"a", "b"}

\* column of a table that references the owning profile
OwnerColumn(tbl) ==
  CASE tbl = "templates" -> "uploaded_by"
    [] tbl = "user_profiles" -> "id"
    [] OTHER -> "user_id"

\* role text NOT NULL DEFAULT 'user' CHECK (role IN ('admin', 'user'))
Roles == {"admin", "user"}

\* status CHECK (status IN ('Not Started', 'Ongoing', 'Completed'))
Statuses == {"Not Started", "Ongoing", "Completed"}

\* progress integer DEFAULT 0 CHECK (progress >= 0 AND progress <= 100)
MinProgress == 0
MaxProgress == 100

---------------------------------------------------------------------------
(* Rows.  One record shape for every table; a column a table does not have *)
(* keeps its default.  owner is the table's OwnerColumn; date is note_date, *)
(* log_date or live_date; amount is content_count, or total_hours in       *)
(* tenths of an hour.                                                      *)

\* calendar dates
Dates == {"d1", "d2"}

NoRow ==
  [tbl |-> "none", owner |-> NULL, assigned_to |-> NULL, project_id |-> 0,
   progress |-> 0, status |-> "Not Started", txt |-> "a", date |-> "d1", amount |-> 0]

\* a row as the column defaults of the CREATE TABLE statements leave it
DefaultRow(tbl, owner) ==
  [tbl |-> tbl, owner |-> owner, assigned_to |-> NULL, project_id |-> 0,
   progress |-> 0, status |-> "Not Started", txt |-> "a", date |-> "d1", amount |-> 0]

NoProfile == [role |-> "none", nama |-> "-"]

VARIABLES
  user_profiles,  \* table user_profiles: principal id -> [role, nama] or NoProfile
  db,             \* the other tables: row id -> row or NoRow
  profile,        \* AuthContext.profile of each principal's session (client copy)
  last,           \* the request or handler call that ran last, and its outcome
  view            \* React state of the mounted components and their pending calls

vars == <<user_profiles, db, profile, last, view>>

\* no component the part at hand follows is mounted
NoView == <<>>

NoRequest ==
  [op |-> "none", by |-> NULL, tbl |-> "none", id |-> 0, owner |-> NULL,
   arg |-> "-", num |-> 0, ok |-> FALSE]

\* owner, arg, num: the owner, the text and the number the request names
Request(op, by, tbl, id, owner, arg, ok) ==
  [op |-> op, by |-> by, tbl |-> tbl, id |-> id, owner |-> owner, arg |-> arg,
   num |-> 0, ok |-> ok]

RowExists(d, id) == id \in DOMAIN d /\ d[id].tbl # "none"

HasProfile(p) == p \in Principals /\ user_profiles[p].role # "none"

---------------------------------------------------------------------------
(* Row-level-security policies.  A policy is a record; its USING and WITH  *)
(* CHECK expressions are disjunctions of atoms:                            *)
(*   "user_id", "uploaded_by", "id"  auth.uid() = <that column>            *)
(*   "assigned_to"                   auth.uid() = assigned_to              *)
(*   "admin"   EXISTS (SELECT 1 FROM user_profiles                         *)
(*                     WHERE id = auth.uid() AND role = 'admin')           *)
(*   "true"                          true                                  *)
(* Statements on the Malay-named tables and on live_log, which no page     *)
(* reads or writes, are left out.                                          *)

\* a clause the statement does not give
Absent == {"absent"}

Create(tbl, name, cmd, using, check) ==
  [stmt |-> "create", tbl |-> tbl, name |-> name, cmd |-> cmd, using |-> using, check |-> check]

Drop(tbl, name) ==
  [stmt |-> "drop", tbl |-> tbl, name |-> name, cmd |-> "-", using |-> {}, check |-> {}]

\* the initial schema
M_initial_schema ==
  << Create("user_profiles", "Users can read own profile", "SELECT", {"id"}, Absent),
     Create("user_profiles", "Users can update own profile", "UPDATE", {"id"}, Absent),
     Create("user_profiles", "Admins can read all profiles", "SELECT", {"admin"}, Absent),
     Create("content_log", "Users can manage own content logs", "ALL", {"user_id"}, Absent),
     Create("content_log", "Admins can read all content logs", "SELECT", {"admin"}, Absent),
     Create("templates", "Users can read all templates", "SELECT", {"true"}, Absent),
     Create("templates", "Admins can manage all templates", "ALL", {"admin"}, Absent) >>

\* 20250629205310
M_sparkling_gate ==
  << Drop("user_profiles", "Admins can read all profiles"),
     Drop("user_profiles", "Users can read own profile"),
     Drop("user_profiles", "Users can update own profile"),
     Create("user_profiles", "Users can read own profile", "SELECT", {"id"}, Absent),
     Create("user_profiles", "Users can create own profile", "INSERT", Absent, {"id"}),
     Create("user_profiles", "Users can update own profile", "UPDATE", {"id"}, {"id"}),
     Create("user_profiles", "Admins can read all profiles", "SELECT", {"admin"}, Absent),
     Create("user_profiles", "Admins can manage all profiles", "ALL", {"admin"}, {"admin"}) >>

\* 20250629210208
M_young_forest ==
  << Drop("projects", "Users can manage own projects"),
     Drop("projects", "Admins can manage all projects"),
     Drop("tasks", "Users can manage own tasks"),
     Drop("tasks", "Admins can manage all tasks"),
     Drop("calendar_notes", "Users can manage own calendar notes"),
     Drop("calendar_notes", "Admins can read all calendar notes"),
     Drop("content_log", "Users can manage own content logs"),
     Drop("content_log", "Admins can read all content logs"),
     Drop("templates", "Users can read all templates"),
     Drop("templates", "Admins can manage all templates"),
     Drop("activity_log", "Users can read own activity logs"),
     Drop("activity_log", "All users can insert activity logs"),
     Drop("activity_log", "Admins can read all activity logs"),
     Create("projects", "Users can manage own projects", "ALL", {"user_id"}, Absent),
     Create("projects", "Admins can manage all projects", "ALL", {"admin"}, Absent),
     Create("tasks", "Users can manage own tasks", "ALL", {"user_id", "assigned_to"}, Absent),
     Create("tasks", "Admins can manage all tasks", "ALL", {"admin"}, Absent),
     Create("calendar_notes", "Users can manage own calendar notes", "ALL", {"user_id"}, Absent),
     Create("calendar_notes", "Admins can read all calendar notes", "SELECT", {"admin"}, Absent),
     Create("content_log", "Users can manage own content logs", "ALL", {"user_id"}, Absent),
     Create("content_log", "Admins can read all content logs", "SELECT", {"admin"}, Absent),
     Create("templates", "Users can read all templates", "SELECT", {"true"}, Absent),
     Create("templates", "Admins can manage all templates", "ALL", {"admin"}, Absent),
     Create("activity_log", "Users can read own activity logs", "SELECT", {"user_id"}, Absent),
     Create("activity_log", "All users can insert activity logs", "INSERT", Absent, {"user_id"}),
     Create("activity_log", "Admins can read all activity logs", "SELECT", {"admin"}, Absent) >>

\* 20250629213024
M_weathered_lantern ==
  << Drop("user_profiles", "Admins can manage all profiles"),
     Drop("user_profiles", "Admins can read all profiles"),
     Drop("user_profiles", "Users can create own profile"),
     Drop("user_profiles", "Users can read own profile"),
     Drop("user_profiles", "Users can update own profile"),
     Create("user_profiles", "Users can manage own profile", "ALL", {"id"}, {"id"}),
     Drop("projects", "Admins can manage all projects"),
     Drop("projects", "Users can manage own projects"),
     Create("projects", "Users can manage own projects", "ALL", {"user_id"}, {"user_id"}),
     Drop("tasks", "Admins can manage all tasks"),
     Drop("tasks", "Users can manage own tasks"),
     Create("tasks", "Users can manage own tasks", "ALL",
            {"user_id", "assigned_to"}, {"user_id", "assigned_to"}),
     Drop("activity_log", "Admins can read all activity logs"),
     Drop("activity_log", "All users can insert activity logs"),
     Drop("activity_log", "Users can read own activity logs"),
     Create("activity_log", "Users can read own activity logs", "SELECT", {"user_id"}, Absent),
     Create("activity_log", "Users can insert own activity logs", "INSERT", Absent, {"user_id"}),
     Drop("content_log", "Admins can read all content logs"),
     Drop("content_log", "Users can manage own content logs"),
     Create("content_log", "Users can manage own content logs", "ALL", {"user_id"}, {"user_id"}),
     Drop("calendar_notes", "Admins can read all calendar notes"),
     Drop("calendar_notes", "Users can manage own calendar notes"),
     Create("calendar_notes", "Users can manage own calendar notes", "ALL",
            {"user_id"}, {"user_id"}),
     Drop("templates", "Admins can manage all templates"),
     Drop("templates", "Users can read all templates"),
     Create("templates", "Users can read all templates", "SELECT", {"true"}, Absent),
     Create("templates", "Users can manage own templates", "ALL",
            {"uploaded_by"}, {"uploaded_by"}) >>

\* 20250629221605
M_hidden_paper ==
  << Create("live_manual_log", "Users can manage own live manual logs", "ALL",
            {"user_id"}, {"user_id"}) >>

\* 20250629224259
M_fragrant_crystal ==
  << Drop("projects", "Users can manage own projects"),
     Create("projects", "Users can manage own projects", "ALL",
            {"user_id", "admin"}, {"user_id", "admin"}),
     Drop("tasks", "Users can manage own tasks"),
     Create("tasks", "Users can manage own tasks", "ALL",
            {"user_id", "assigned_to", "admin"}, {"user_id", "assigned_to", "admin"}),
     Drop("calendar_notes", "Users can manage own calendar notes"),
     Create("calendar_notes", "Users can manage own calendar notes", "ALL",
            {"user_id", "admin"}, {"user_id", "admin"}),
     Drop("content_log", "Users can manage own content logs"),
     Create("content_log", "Users can manage own content logs", "ALL",
            {"user_id", "admin"}, {"user_id", "admin"}),
     Drop("live_manual_log", "Users can manage own live manual logs"),
     Create("live_manual_log", "Users can manage own live manual logs", "ALL",
            {"user_id", "admin"}, {"user_id", "admin"}),
     Drop("templates", "Users can manage own templates"),
     Drop("templates", "Users can read all templates"),
     Create("templates", "Users can read all templates", "SELECT", {"true"}, Absent),
     Create("templates", "Users can manage own templates", "ALL",
            {"uploaded_by", "admin"}, {"uploaded_by", "admin"}),
     Drop("activity_log", "Users can read own activity logs"),
     Drop("activity_log", "Users can insert own activity logs"),
     Create("activity_log", "Users can read own activity logs", "SELECT",
            {"user_id", "admin"}, Absent),
     Create("activity_log", "Users can insert own activity logs", "INSERT",
            Absent, {"user_id"}) >>

\* the policies left by a run of DROP POLICY IF EXISTS / CREATE POLICY
\* statements: those created and not dropped (or created again) afterwards
ApplyStatements(stmts) ==
  {[tbl |-> stmts[i].tbl, name |-> stmts[i].name, cmd |-> stmts[i].cmd,
    using |-> stmts[i].using, check |-> stmts[i].check] :
     i \in {k \in DOMAIN stmts :
              /\ stmts[k].stmt = "create"
              /\ \A j \in DOMAIN stmts :
                   j > k => ~(stmts[j].tbl = stmts[k].tbl /\ stmts[j].name = stmts[k].name)}}

\* the migrations in timestamp order
Migrations ==
  M_initial_schema \o M_sparkling_gate \o M_young_forest \o M_weathered_lantern
    \o M_hidden_paper \o M_fragrant_crystal

\* the policies in force once the last migration has been applied,
\* without that migration
PoliciesWithoutLastMigration ==
  ApplyStatements(M_initial_schema \o M_sparkling_gate \o M_young_forest
                    \o M_weathered_lantern \o M_hidden_paper)

\* the policies in force: every migration applied
Policies == ApplyStatements(Migrations)

---------------------------------------------------------------------------
(* Policy evaluation: what the store does with a request of principal p.   *)
(* Permissive policies of a table are OR-ed; a policy applies to a command *)
(* when it is FOR ALL or FOR that command.                                 *)

\* the policies of each table that apply to each command
PolicyIndex ==
  [t \in Tables \cup {"user_profiles"}, c \in {"SELECT", "INSERT", "UPDATE", "DELETE"} |->
     {q \in Policies : q.tbl = t /\ q.cmd \in {"ALL", c}}]

Applicable(tbl, cmd) == PolicyIndex[tbl, cmd]

\* a user_profiles row (id = q) is visible to p; the sub-select of the
\* "admin" atom runs under the policies of user_profiles like any query
ProfileVisible(p, q) ==
  \E pol \in Applicable("user_profiles", "SELECT") :
    \E a \in pol.using : a = "true" \/ (a = "id" /\ q = p)

\* EXISTS (SELECT 1 FROM user_profiles WHERE id = auth.uid() AND role = 'admin')
AdminExists(p) ==
  \E q \in Principals :
    /\ user_profiles[q].role # "none"
    /\ ProfileVisible(p, q)
    /\ q = p
    /\ user_profiles[q].role = "admin"

EvalAtom(a, p, row) ==
  CASE a = "true" -> TRUE
    [] a = "admin" -> AdminExists(p)
    [] a = "assigned_to" -> row.assigned_to = p
    [] a \in {"user_id", "uploaded_by", "id"} -> a = OwnerColumn(row.tbl) /\ row.owner = p
    [] OTHER -> FALSE

\* some applicable policy's USING expression holds of the row
UsingHolds(cmd, p, row) ==
  \E pol \in Applicable(row.tbl, cmd) : \E a \in pol.using : EvalAtom(a, p, row)

\* a policy without WITH CHECK checks new rows with its USING expression
CheckExpr(pol) == IF pol.check = Absent THEN pol.using ELSE pol.check

\* some applicable policy's WITH CHECK expression holds of the new row
CheckHolds(cmd, p, row) ==
  \E pol \in Applicable(row.tbl, cmd) : \E a \in CheckExpr(pol) : EvalAtom(a, p, row)

\* the mutant evaluates the read policies on nothing but ownership
CanSelectOwnerOnly(p, row) == row.owner = p

CanSelect(p, row) == UsingHolds("SELECT", p, row)

\* the mutant lets an admin insert rows the INSERT policies reject
CanInsertAdminBypass(p, new) == CheckHolds("INSERT", p, new) \/ AdminExists(p)

\* the mutant accepts every new row
CanInsertUnchecked(p, new) == TRUE

CanInsert(p, new) == CheckHolds("INSERT", p, new)

\* the mutant evaluates USING on the incoming row instead of the stored one
CanUpdateOnIncoming(p, old, new) ==
  /\ UsingHolds("UPDATE", p, new)
  /\ CheckHolds("UPDATE", p, new)

\* an UPDATE ... WHERE id = x reads the row, so the row must also be selectable
CanUpdate(p, old, new) ==
  /\ UsingHolds("SELECT", p, old)
  /\ UsingHolds("UPDATE", p, old)
  /\ CheckHolds("UPDATE", p, new)

\* the mutant lets whoever may read a row delete it
CanDeleteIfReadable(p, old) == UsingHolds("SELECT", p, old)

CanDelete(p, old) ==
  /\ UsingHolds("SELECT", p, old)
  /\ UsingHolds("DELETE", p, old)

\* REFERENCES user_profiles(id), the CHECK constraints, REFERENCES projects(id)
ConstraintsHold(d, new) ==
  /\ new.owner = NULL \/ HasProfile(new.owner)
  /\ new.assigned_to = NULL \/ HasProfile(new.assigned_to)
  /\ new.status \in Statuses
  /\ new.progress >= MinProgress /\ new.progress <= MaxProgress
  /\ new.amount >= 0
  /\ new.project_id = 0 \/ (RowExists(d, new.project_id) /\ d[new.project_id].tbl = "projects")

FreeIds(d) == {i \in DOMAIN d : d[i].tbl = "none"}

\* the id the new row gets
NewId(d) == CHOOSE i \in FreeIds(d) : \A j \in FreeIds(d) : i <= j

InsertAccepted(p, d, new) ==
  /\ FreeIds(d) # {}
  /\ ConstraintsHold(d, new)
  /\ CanInsert(p, new)

UpdateAccepted(p, d, id, new) ==
  /\ RowExists(d, id)
  /\ new.tbl = d[id].tbl
  /\ CanUpdate(p, d[id], new)
  /\ ConstraintsHold(d, new)

DeleteAccepted(p, d, id) ==
  /\ RowExists(d, id)
  /\ CanDelete(p, d[id])

\* the mutant removes the row alone: no ON DELETE CASCADE
AfterDeleteNoCascade(d, id) == [i \in DOMAIN d |-> IF i = id THEN NoRow ELSE d[i]]

\* ON DELETE CASCADE from projects(id) to tasks.project_id
AfterDelete(d, id) ==
  [i \in DOMAIN d |->
     IF i = id \/ (d[id].tbl = "projects" /\ d[i].tbl = "tasks" /\ d[i].project_id = id)
       THEN NoRow
       ELSE d[i]]

---------------------------------------------------------------------------
(* Requests against the store, as any authenticated principal can send     *)
(* them through the client library, with any body.                         *)

\* new rows a request body can name
InsertBodies ==
  {[DefaultRow(t, o) EXCEPT !.assigned_to = a] :
     t \in Tables, o \in PrincipalOrNull, a \in PrincipalOrNull}

\* rows an update body can turn the stored row into
UpdateBodies(old) ==
  {[old EXCEPT !.owner = o] : o \in PrincipalOrNull}
    \cup {[old EXCEPT !.assigned_to = a] : a \in PrincipalOrNull}
    \cup {[old EXCEPT !.txt = t] : t \in Texts}

HasColumns(row) == row.tbl = "tasks" \/ row.assigned_to = NULL

ReqSelect(p, id) ==
  /\ last' = Request("select", p, db[id].tbl, id, NULL, "-",
                     RowExists(db, id) /\ CanSelect(p, db[id]))
  /\ UNCHANGED <<user_profiles, db, profile, view>>

ReqInsert(p, new) ==
  /\ HasColumns(new)
  /\ FreeIds(db) # {}
  /\ LET ok == InsertAccepted(p, db, new)
     IN  /\ db' = IF ok THEN [db EXCEPT ![NewId(db)] = new] ELSE db
         /\ last' = Request("insert", p, new.tbl, NewId(db), new.owner, "-", ok)
  /\ UNCHANGED <<user_profiles, profile, view>>

ReqUpdate(p, id, new) ==
  /\ RowExists(db, id)
  /\ HasColumns(new)
  /\ LET ok == UpdateAccepted(p, db, id, new)
     IN  /\ db' = IF ok THEN [db EXCEPT ![id] = new] ELSE db
         /\ last' = Request("update", p, db[id].tbl, id, new.owner, "-", ok)
  /\ UNCHANGED <<user_profiles, profile, view>>

ReqDelete(p, id) ==
  /\ RowExists(db, id)
  /\ LET ok == DeleteAccepted(p, db, id)
     IN  /\ db' = IF ok THEN AfterDelete(db, id) ELSE db
         /\ last' = Request("delete", p, db[id].tbl, id, NULL, "-", ok)
  /\ UNCHANGED <<user_profiles, profile, view>>

\* the deployed store: every principal has signed in once, so has a profile
\* (fetchProfile), with either role; no rows
InitProfiles == [Principals -> {[role |-> r, nama |-> "n"] : r \in Roles}]

InitRLS ==
  /\ user_profiles \in InitProfiles
  /\ db = [i \in RowIds |-> NoRow]
  /\ profile = [p \in Principals |-> NoProfile]
  /\ last = NoRequest
  /\ view = NoView

NextRLS ==
  \/ \E p \in Principals, id \in RowIds : ReqSelect(p, id)
  \/ \E p \in Principals, new \in InsertBodies : ReqInsert(p, new)
  \/ \E p \in Principals, id \in RowIds : \E new \in UpdateBodies(db[id]) : ReqUpdate(p, id, new)
  \/ \E p \in Principals, id \in RowIds : ReqDelete(p, id)

SpecRLS == InitRLS /\ [][NextRLS]_vars

---------------------------------------------------------------------------
(* Sections 4.1 and 8 of the specification, as predicates on a row *)

RoleOf(p) == user_profiles[p].role

ReadTables == OwnedTables \cup {"templates"}

WriterOf(p, row) == row.owner = p \/ (row.tbl = "tasks" /\ row.assigned_to = p)

SpecCanRead(p, row) == row.tbl = "templates" \/ WriterOf(p, row) \/ RoleOf(p) = "admin"

SpecCanWrite(p, row) == WriterOf(p, row) \/ RoleOf(p) = "admin"

\* C1: a select by P returns row R of an owned table exactly when P is R's
\* owner, R's assignee (tasks) or an admin; a templates row is always returned.
C1_ReadIffOwnerAssigneeAdmin ==
  (last.op = "select" /\ RowExists(db, last.id) /\ db[last.id].tbl \in ReadTables)
    => (last.ok <=> SpecCanRead(last.by, db[last.id]))

\* an admin has read a task that another principal owns and that is not assigned to it
C1_Witness ==
  /\ last.op = "select" /\ last.ok
  /\ RowExists(db, last.id) /\ db[last.id].tbl = "tasks"
  /\ ~WriterOf(last.by, db[last.id])
  /\ RoleOf(last.by) = "admin"

\* C2: an update or delete by a non-admin P that is neither the stored owner
\* nor the stored assignee of the row changes nothing, whatever the body says.
C2_WriteDecidedOnPersistedRow ==
  [][ (/\ last'.op \in {"update", "delete"}
       /\ RowExists(db, last'.id)
       /\ ~SpecCanWrite(last'.by, db[last'.id]))
      => (db' = db /\ ~last'.ok) ]_vars

\* a non-admin stranger sent an update naming itself as owner, and was refused
C2_Witness ==
  /\ last.op = "update" /\ ~last.ok
  /\ last.owner = last.by
  /\ RowExists(db, last.id)
  /\ ~SpecCanWrite(last.by, db[last.id])

\* C3: an insert or update by a non-admin P is accepted only if P is owner
\* (uploader) or tasks assignee of the resulting row, so P can still read,
\* update and delete the row it wrote.
C3_AcceptedWriteKeepsAccess ==
  (/\ last.op \in {"insert", "update"} /\ last.ok
   /\ last.tbl \in ReadTables
   /\ RoleOf(last.by) # "admin")
    => /\ RowExists(db, last.id)
       /\ WriterOf(last.by, db[last.id])
       /\ CanSelect(last.by, db[last.id])
       /\ CanUpdate(last.by, db[last.id], db[last.id])
       /\ CanDelete(last.by, db[last.id])

\* a non-admin assignee has updated a task that another principal owns
C3_Witness ==
  /\ last.op = "update" /\ last.ok
  /\ RoleOf(last.by) # "admin"
  /\ RowExists(db, last.id) /\ db[last.id].tbl = "tasks"
  /\ db[last.id].owner # last.by

\* C4: an activity_log insert whose user_id is not the requesting principal is
\* rejected and adds no row, for admins too.
C4_ActivityInsertOnlyOwn ==
  [][ (last'.op = "insert" /\ last'.tbl = "activity_log" /\ last'.owner # last'.by)
      => (db' = db /\ ~last'.ok) ]_vars

\* an admin tried to log an activity for another principal and was refused
C4_Witness ==
  /\ last.op = "insert" /\ last.tbl = "activity_log" /\ ~last.ok
  /\ last.owner \in Principals /\ last.owner # last.by
  /\ RoleOf(last.by) = "admin"

\* C5: no request changes or removes an existing activity_log row.
C5_ActivityLogAppendOnly ==
  [][ \A i \in RowIds : db[i].tbl = "activity_log" => db'[i] = db[i] ]_vars

\* an admin tried to delete or update its own activity_log row and was refused
C5_Witness ==
  /\ last.op \in {"update", "delete"} /\ last.tbl = "activity_log" /\ ~last.ok
  /\ RowExists(db, last.id) /\ db[last.id].owner = last.by
  /\ RoleOf(last.by) = "admin"

---------------------------------------------------------------------------
(* Profiles and roles: AuthContext (fetchProfile, updateProfile,           *)
(* logActivity), Settings.handleRoleChange, and direct requests on         *)
(* user_profiles.  Every principal is signed in as itself.                 *)

\* nama values
Names == {"n", "m"}

\* a field a Partial<UserProfile> does not give
Unset == "-"

\* the user_profiles row of q, as the policies see it (id = q)
ProfileRow(q) == DefaultRow("user_profiles", q)

\* update of the user_profiles row of q, requested by p
ProfileUpdateAccepted(p, q, new) ==
  /\ HasProfile(q)
  /\ CanUpdate(p, ProfileRow(q), ProfileRow(q))
  /\ new.role \in Roles

\* updates applied to a profile record: { ...prev, ...updates }
Merge(prev, updates) ==
  [role |-> IF updates.role = Unset THEN prev.role ELSE updates.role,
   nama |-> IF updates.nama = Unset THEN prev.nama ELSE updates.nama]

\* logActivity where `user` is p: nothing without user, else an insert into
\* activity_log as that user; the result of the insert is not looked at
LogActivity(d, p, aksi) ==
  IF p = NULL THEN d
  ELSE LET row == [DefaultRow("activity_log", p) EXCEPT !.txt = aksi]
       IN  IF InsertAccepted(p, d, row) THEN [d EXCEPT ![NewId(d)] = row] ELSE d

\* fetchProfile(userId) of the signed-in principal p
FetchProfile(p) ==
  /\ IF HasProfile(p) /\ CanSelect(p, ProfileRow(p))
       THEN /\ profile' = [profile EXCEPT ![p] = user_profiles[p]]
            /\ last' = Request("fetchProfile", p, "user_profiles", 0, p, "found", TRUE)
            /\ UNCHANGED user_profiles
       ELSE LET new == [role |-> "user", nama |-> "n"]
                ok == ~HasProfile(p) /\ CanInsert(p, ProfileRow(p)) /\ CanSelect(p, ProfileRow(p))
            IN  /\ user_profiles' = IF ok THEN [user_profiles EXCEPT ![p] = new]
                                          ELSE user_profiles
                /\ profile' = IF ok THEN [profile EXCEPT ![p] = new] ELSE profile
                /\ last' = Request("fetchProfile", p, "user_profiles", 0, p, "created", ok)
  /\ UNCHANGED <<db, view>>

\* the mutant leaves out the admin guard of handleRoleChange
RoleChangeGuardNoAdminCheck(p, userId) == userId # p

\* the two early returns of handleRoleChange
RoleChangeGuard(p, userId) == profile[p].role = "admin" /\ userId # p

\* handleRoleChange(userId, newRole) in the session of p; confirmed says what
\* the confirm() dialog returned.  last.ok: the update request was sent.
HandleRoleChange(p, userId, newRole, confirmed) ==
  LET sent == RoleChangeGuard(p, userId) /\ confirmed
      new == [role |-> newRole, nama |-> user_profiles[userId].nama]
  IN  /\ user_profiles' =
           IF sent /\ ProfileUpdateAccepted(p, userId, new)
             THEN [user_profiles EXCEPT ![userId] = new]
             ELSE user_profiles
      /\ last' = Request("handleRoleChange", p, "user_profiles", 0, userId, newRole, sent)
      /\ UNCHANGED <<db, profile, view>>

\* updateProfile(updates) in the session of p
UpdateProfile(p, updates) ==
  LET new == Merge(user_profiles[p], updates)
      ok == ProfileUpdateAccepted(p, p, new)
  IN  \* an update that matches no row is no error: the handler goes on
      /\ user_profiles' = IF ok THEN [user_profiles EXCEPT ![p] = new] ELSE user_profiles
      /\ profile' = [profile EXCEPT ![p] =
                       IF profile[p].role = "none" THEN profile[p] ELSE Merge(profile[p], updates)]
      /\ db' = LogActivity(db, p, "Kemaskini profil")
      /\ last' = Request("updateProfile", p, "user_profiles", 0, p, updates.role, ok)
      /\ UNCHANGED view

\* supabase.from('user_profiles').update(body).eq('id', q), sent by p
ReqProfileUpdate(p, q, updates) ==
  LET new == Merge(user_profiles[q], updates)
      ok == ProfileUpdateAccepted(p, q, new)
  IN  /\ user_profiles' = IF ok THEN [user_profiles EXCEPT ![q] = new] ELSE user_profiles
      /\ last' = Request("update", p, "user_profiles", 0, q, updates.role, ok)
      /\ UNCHANGED <<db, profile, view>>

\* Partial<UserProfile>
ProfileUpdates == [role : Roles \cup {Unset}, nama : Names \cup {Unset}]

InitRole ==
  /\ user_profiles \in [Principals -> {NoProfile} \cup {[role |-> r, nama |-> "n"] : r \in Roles}]
  /\ db = [i \in RowIds |-> NoRow]
  /\ profile = [p \in Principals |-> NoProfile]
  /\ last = NoRequest
  /\ view = NoView

NextRole ==
  \/ \E p \in Principals : FetchProfile(p)
  \/ \E p \in Principals, q \in Principals, r \in Roles, c \in BOOLEAN :
       HandleRoleChange(p, q, r, c)
  \/ \E p \in Principals, u \in ProfileUpdates : UpdateProfile(p, u)
  \/ \E p \in Principals, q \in Principals, u \in ProfileUpdates : ReqProfileUpdate(p, q, u)

SpecRole == InitRole /\ [][NextRole]_vars

\* C6: handleRoleChange in the session of a principal whose profile is not
\* admin sends no update, and no step of a principal whose stored role is not
\* admin changes the role of another principal.
C6_NonAdminCannotChangeOthersRole ==
  [][ /\ (last'.op = "handleRoleChange" /\ profile[last'.by].role # "admin")
           => (~last'.ok /\ user_profiles' = user_profiles)
      /\ \A q \in Principals :
           (last'.by \in Principals /\ q # last'.by /\ RoleOf(last'.by) # "admin")
             => user_profiles'[q].role = user_profiles[q].role ]_vars

\* a non-admin called handleRoleChange for another principal, confirmed, and
\* nothing was sent
C6_Witness ==
  /\ last.op = "handleRoleChange" /\ ~last.ok
  /\ last.owner # last.by
  /\ HasProfile(last.by) /\ RoleOf(last.by) = "user" /\ profile[last.by].role = "user"
  /\ HasProfile(last.owner) /\ RoleOf(last.owner) # last.arg

\* C7: no step a principal takes changes the role stored in its own profile.
C7_OwnRoleNeverChanges ==
  [][ \A p \in Principals :
        (last'.by = p /\ HasProfile(p)) => user_profiles'[p].role = user_profiles[p].role ]_vars

\* C8: once admin A has confirmed handleRoleChange for another principal B,
\* the stored role of B is the requested one.
C8_AdminRoleChangeTakesEffect ==
  (/\ last.op = "handleRoleChange" /\ last.ok
   /\ last.owner # last.by
   /\ HasProfile(last.owner))
    => RoleOf(last.owner) = last.arg

---------------------------------------------------------------------------
(* The Tasks page in the session of principal p: handleSubmit (create and  *)
(* edit), handleDelete, updateProgress and the three progress buttons.     *)
(* Every handler ends with fetchTasks(), so the list a handler reads is    *)
(* the stored one.                                                         *)

\* step of the progress range input
Step == 5

\* change of the -25% and +25% buttons
ButtonDelta == 25

\* values of <input type="range" min="0" max="100" step="5">
FormProgress == {n \in MinProgress..MaxProgress : n % Step = 0}

Max(a, b) == IF a >= b THEN a ELSE b

\* the mutant's +25 button does not stop at 100
MinUnclamped(a, b) == b

Min(a, b) == IF a <= b THEN a ELSE b

\* the mutant gives 'Ongoing' for progress 0
NewStatusZeroOngoing(newProgress) ==
  IF newProgress = 100 THEN "Completed"
  ELSE IF newProgress >= 0 THEN "Ongoing" ELSE "Not Started"

\* newStatus of updateProgress
NewStatus(newProgress) ==
  IF newProgress = 100 THEN "Completed"
  ELSE IF newProgress > 0 THEN "Ongoing" ELSE "Not Started"

\* canEdit(task)
CanEdit(p, task) ==
  profile[p].role = "admin" \/ task.owner = p \/ task.assigned_to = p

\* a task card p sees: fetchTasks returned the row
Listed(p, id) == RowExists(db, id) /\ db[id].tbl = "tasks" /\ CanSelect(p, db[id])

\* handleSubmit with editingTask = null; the page is followed for one task,
\* so the form creates one while the table is empty
TaskSubmitCreate(p, status, progress) ==
  /\ FreeIds(db) = RowIds
  /\ LET new == [DefaultRow("tasks", p) EXCEPT !.status = status, !.progress = progress]
         ok == InsertAccepted(p, db, new)
     IN  /\ db' = IF ok THEN [db EXCEPT ![NewId(db)] = new] ELSE db
         /\ last' = [Request("handleSubmit", p, "tasks", NewId(db), p, "create", ok)
                       EXCEPT !.num = progress]
  /\ UNCHANGED <<user_profiles, profile, view>>

\* handleEdit(task), then handleSubmit with editingTask = task
TaskSubmitEdit(p, id, status, progress) ==
  /\ Listed(p, id) /\ CanEdit(p, db[id])
  /\ LET new == [db[id] EXCEPT !.status = status, !.progress = progress]
         ok == UpdateAccepted(p, db, id, new)
     IN  /\ db' = IF ok THEN [db EXCEPT ![id] = new] ELSE db
         /\ last' = [Request("handleSubmit", p, "tasks", id, db[id].owner, "edit", ok)
                       EXCEPT !.num = progress]
  /\ UNCHANGED <<user_profiles, profile, view>>

\* handleDelete(id), confirmed
TaskDelete(p, id) ==
  /\ Listed(p, id) /\ CanEdit(p, db[id])
  /\ LET ok == DeleteAccepted(p, db, id)
     IN  /\ db' = IF ok THEN AfterDelete(db, id) ELSE db
         /\ last' = Request("handleDelete", p, "tasks", id, NULL, "-", ok)
  /\ UNCHANGED <<user_profiles, profile, view>>

\* updateProgress(taskId, newProgress)
UpdateProgress(p, taskId, newProgress) ==
  /\ LET new == [db[taskId] EXCEPT !.progress = newProgress, !.status = NewStatus(newProgress)]
         ok == UpdateAccepted(p, db, taskId, new)
     IN  /\ db' = IF ok THEN [db EXCEPT ![taskId] = new] ELSE db
         /\ last' = [Request("updateProgress", p, "tasks", taskId, NULL, "-", ok)
                       EXCEPT !.num = newProgress]
  /\ UNCHANGED <<user_profiles, profile, view>>

\* the -25% button of a task card
ClickMinus(p, id) ==
  /\ Listed(p, id) /\ CanEdit(p, db[id])
  /\ UpdateProgress(p, id, Max(0, db[id].progress - ButtonDelta))

\* the +25% button
ClickPlus(p, id) ==
  /\ Listed(p, id) /\ CanEdit(p, db[id])
  /\ UpdateProgress(p, id, Min(100, db[id].progress + ButtonDelta))

\* the Selesai button
ClickComplete(p, id) ==
  /\ Listed(p, id) /\ CanEdit(p, db[id])
  /\ UpdateProgress(p, id, 100)

\* every principal has signed in and holds its profile
InitTasks ==
  /\ user_profiles \in InitProfiles
  /\ db = [i \in RowIds |-> NoRow]
  /\ profile = user_profiles
  /\ last = NoRequest
  /\ view = NoView

NextTasks ==
  \/ \E p \in Principals, st \in Statuses, pr \in FormProgress : TaskSubmitCreate(p, st, pr)
  \/ \E p \in Principals, id \in RowIds, st \in Statuses, pr \in FormProgress :
       TaskSubmitEdit(p, id, st, pr)
  \/ \E p \in Principals, id \in RowIds : TaskDelete(p, id)
  \/ \E p \in Principals, id \in RowIds : ClickMinus(p, id)
  \/ \E p \in Principals, id \in RowIds : ClickPlus(p, id)
  \/ \E p \in Principals, id \in RowIds : ClickComplete(p, id)

SpecTasks == InitTasks /\ [][NextTasks]_vars

\* the status the specification gives a progress value
SpecStatus(n) ==
  CASE n = 0 -> "Not Started"
    [] n > 0 /\ n < 100 -> "Ongoing"
    [] n = 100 -> "Completed"
    [] OTHER -> "undefined"

\* C9: updateProgress(taskId, p) stores progress = p and, with it, the status
\* 'Not Started' for 0, 'Ongoing' for 0 < p < 100, 'Completed' for 100; the
\* status it computes is that one for every p in 0..100.
C9_UpdateProgressStatus ==
  /\ (last.op = "updateProgress" /\ last.ok)
       => /\ RowExists(db, last.id)
          /\ db[last.id].progress = last.num
          /\ db[last.id].status = SpecStatus(last.num)
  /\ \A n \in MinProgress..MaxProgress : NewStatus(n) = SpecStatus(n)

\* an accepted updateProgress(task, 75) has left the task at 75 and 'Ongoing'
C9_Witness ==
  /\ last.op = "updateProgress" /\ last.ok
  /\ last.num = 75
  /\ db[last.id].progress = 75 /\ db[last.id].status = "Ongoing"

\* C10: every stored task has the status its progress gives.
C10_StatusFollowsProgress ==
  \A i \in RowIds : db[i].tbl = "tasks" => db[i].status = SpecStatus(db[i].progress)

---------------------------------------------------------------------------
(* Projects and the tasks that reference them: Projects.handleSubmit and   *)
(* handleDelete, and task requests that name a project.                    *)

\* number of row slots of the store in this part
MaxCascadeRows == 2

CascadeIds == 1..MaxCascadeRows

\* projects.id values a request body can name, 0 for null; the last one is
\* the id of no row
ProjectRefs == 0..(MaxCascadeRows + 1)

\* the project cards p sees: Projects.fetchProjects
ProjectListed(p, id) ==
  /\ RowExists(db, id) /\ db[id].tbl = "projects"
  /\ CanSelect(p, db[id])
  /\ profile[p].role = "admin" \/ db[id].owner = p

\* canEdit(project)
CanEditProject(p, project) == profile[p].role = "admin" \/ project.owner = p

\* Projects.handleSubmit with editingProject = null
ProjectSubmitCreate(p) ==
  /\ FreeIds(db) # {}
  /\ LET new == DefaultRow("projects", p)
         ok == InsertAccepted(p, db, new)
     IN  /\ db' = IF ok THEN [db EXCEPT ![NewId(db)] = new] ELSE db
         /\ last' = Request("Projects.handleSubmit", p, "projects", NewId(db), p, "create", ok)
  /\ UNCHANGED <<user_profiles, profile, view>>

\* Projects.handleDelete(id), confirmed; num counts the rows the store removed
ProjectDelete(p, id) ==
  /\ ProjectListed(p, id) /\ CanEditProject(p, db[id])
  /\ LET ok == DeleteAccepted(p, db, id)
         after == IF ok THEN AfterDelete(db, id) ELSE db
     IN  /\ db' = after
         /\ last' = [Request("Projects.handleDelete", p, "projects", id, db[id].owner, "-", ok)
                       EXCEPT !.num = Cardinality({i \in DOMAIN db : after[i] # db[i]})]
  /\ UNCHANGED <<user_profiles, profile, view>>

\* task rows an insert can name: any owner, assignee and project reference
TaskBodies ==
  {[DefaultRow("tasks", o) EXCEPT !.assigned_to = a, !.project_id = r] :
     o \in Principals, a \in PrincipalOrNull, r \in ProjectRefs}

\* supabase.from('tasks').insert([body])
ReqInsertTask(p, new) ==
  /\ FreeIds(db) # {}
  /\ LET ok == InsertAccepted(p, db, new)
     IN  /\ db' = IF ok THEN [db EXCEPT ![NewId(db)] = new] ELSE db
         /\ last' = Request("insert", p, "tasks", NewId(db), new.owner, "-", ok)
  /\ UNCHANGED <<user_profiles, profile, view>>

\* supabase.from('tasks').update({project_id}).eq('id', id)
ReqUpdateTaskProject(p, id, ref) ==
  /\ RowExists(db, id) /\ db[id].tbl = "tasks"
  /\ LET new == [db[id] EXCEPT !.project_id = ref]
         ok == UpdateAccepted(p, db, id, new)
     IN  /\ db' = IF ok THEN [db EXCEPT ![id] = new] ELSE db
         /\ last' = Request("update", p, "tasks", id, new.owner, "-", ok)
  /\ UNCHANGED <<user_profiles, profile, view>>

\* one principal with each role, both signed in
UserAndAdmin ==
  [p \in Principals |-> [role |-> IF p = "u1" THEN "user" ELSE "admin", nama |-> "n"]]

InitCascade ==
  /\ user_profiles = UserAndAdmin
  /\ db = [i \in CascadeIds |-> NoRow]
  /\ profile = user_profiles
  /\ last = NoRequest
  /\ view = NoView

NextCascade ==
  \/ \E p \in Principals : ProjectSubmitCreate(p)
  \/ \E p \in Principals, id \in CascadeIds : ProjectDelete(p, id)
  \/ \E p \in Principals, new \in TaskBodies : ReqInsertTask(p, new)
  \/ \E p \in Principals, id \in CascadeIds, ref \in ProjectRefs : ReqUpdateTaskProject(p, id, ref)
  \/ \E p \in Principals, id \in CascadeIds : ReqDelete(p, id)

SpecCascade == InitCascade /\ [][NextCascade]_vars

\* a task of d refers to project id
RefersTo(d, i, id) == d[i].tbl = "tasks" /\ d[i].project_id = id

---------------------------------------------------------------------------
(* Settings.deleteAccount: the principal deletes its own user_profiles row *)
(* and the foreign keys to user_profiles(id) and projects(id) do the rest. *)

\* number of row slots of the store in this part
MaxAccountRows == 2

AccountIds == 1..MaxAccountRows

\* tables whose user_id is REFERENCES user_profiles(id) ON DELETE CASCADE
CascadeTables == OwnedTables \cup {"activity_log"}

\* the rows a slot can hold
AccountRows ==
  {NoRow}
    \cup {DefaultRow(t, o) : t \in CascadeTables \ {"tasks"}, o \in Principals}
    \cup {DefaultRow("templates", o) : o \in PrincipalOrNull}
    \cup {[DefaultRow("tasks", o) EXCEPT !.assigned_to = a, !.project_id = r] :
            o \in Principals, a \in PrincipalOrNull, r \in 0..MaxAccountRows}

\* a project of d that goes with profile q
ProjectOf(d, i, q) == i \in DOMAIN d /\ d[i].tbl = "projects" /\ d[i].owner = q

\* the mutant deletes the templates of q with the rest
AfterProfileDeleteDropsTemplates(d, q) ==
  [i \in DOMAIN d |->
     IF d[i].owner = q \/ (d[i].tbl = "tasks" /\ ProjectOf(d, d[i].project_id, q))
       THEN NoRow
     ELSE IF d[i].tbl = "tasks" /\ d[i].assigned_to = q
       THEN [d[i] EXCEPT !.assigned_to = NULL]
     ELSE d[i]]

\* the rows left by DELETE FROM user_profiles WHERE id = q:
\* user_id ... ON DELETE CASCADE, project_id ... ON DELETE CASCADE,
\* assigned_to / uploaded_by ... ON DELETE SET NULL
AfterProfileDelete(d, q) ==
  [i \in DOMAIN d |->
     IF d[i].tbl \in CascadeTables /\ d[i].owner = q
       THEN NoRow
     ELSE IF d[i].tbl = "tasks" /\ ProjectOf(d, d[i].project_id, q)
       THEN NoRow
     ELSE IF d[i].tbl = "templates" /\ d[i].owner = q
       THEN [d[i] EXCEPT !.owner = NULL]
     ELSE IF d[i].tbl = "tasks" /\ d[i].assigned_to = q
       THEN [d[i] EXCEPT !.assigned_to = NULL]
     ELSE d[i]]

\* DELETE on user_profiles row q by p, under the policies of user_profiles
ProfileDeleteAccepted(p, q) ==
  /\ HasProfile(q)
  /\ UsingHolds("SELECT", p, ProfileRow(q))
  /\ UsingHolds("DELETE", p, ProfileRow(q))

\* deleteAccount, confirmation typed; signOut follows when no error came back
DeleteAccount(p) ==
  /\ LET ok == ProfileDeleteAccepted(p, p)
         after == IF ok THEN AfterProfileDelete(db, p) ELSE db
     IN  /\ user_profiles' = IF ok THEN [user_profiles EXCEPT ![p] = NoProfile] ELSE user_profiles
         /\ db' = after
         /\ last' = [Request("deleteAccount", p, "user_profiles", 0, p, "-", ok)
                       EXCEPT !.num = Cardinality({i \in DOMAIN db : after[i] # db[i]})]
  /\ profile' = [profile EXCEPT ![p] = NoProfile]
  /\ UNCHANGED view

\* supabase.from('user_profiles').delete().eq('id', q)
ReqProfileDelete(p, q) ==
  /\ LET ok == ProfileDeleteAccepted(p, q)
         after == IF ok THEN AfterProfileDelete(db, q) ELSE db
     IN  /\ user_profiles' = IF ok THEN [user_profiles EXCEPT ![q] = NoProfile] ELSE user_profiles
         /\ db' = after
         /\ last' = [Request("delete", p, "user_profiles", 0, q, "-", ok)
                       EXCEPT !.num = Cardinality({i \in DOMAIN db : after[i] # db[i]})]
  /\ UNCHANGED <<profile, view>>

\* a store the two principals have filled: every row satisfies the
\* constraints and is one some principal's insert is accepted for
InitAccount ==
  /\ user_profiles = UserAndAdmin
  /\ db \in [AccountIds -> AccountRows]
  /\ \A i \in AccountIds :
       db[i] # NoRow => (ConstraintsHold(db, db[i]) /\ \E p \in Principals : CanInsert(p, db[i]))
  /\ profile = user_profiles
  /\ last = NoRequest
  /\ view = NoView

NextAccount ==
  \/ \E p \in Principals : DeleteAccount(p)
  \/ \E p \in Principals, q \in Principals : ReqProfileDelete(p, q)

SpecAccount == InitAccount /\ [][NextAccount]_vars

\* the profile row the step deletes, if any
Deleted(q) == user_profiles[q].role # "none" /\ user_profiles'[q].role = "none"

\* C12 as stated: deleting the profile of q removes q's rows of the cascade
\* tables, keeps q's templates with uploaded_by null and the tasks of others
\* assigned to q with assigned_to null, and leaves every other row of
\* another principal unchanged.
C12_ProfileDeleteFrame ==
  [][ \A q \in Principals : Deleted(q) =>
        \A i \in DOMAIN db :
          /\ (db[i].tbl \in CascadeTables /\ db[i].owner = q) => db'[i] = NoRow
          /\ (db[i].tbl = "templates" /\ db[i].owner = q) => db'[i] = [db[i] EXCEPT !.owner = NULL]
          /\ (db[i].tbl = "tasks" /\ db[i].owner # q /\ db[i].assigned_to = q)
               => db'[i] = [db[i] EXCEPT !.assigned_to = NULL]
          /\ (db[i].owner # q /\ ~(db[i].tbl = "tasks" /\ db[i].assigned_to = q))
               => db'[i] = db[i] ]_vars

\* C12, amended: as stated, except that a task of another principal that
\* references a project of q is removed with that project.
C12_ProfileDeleteFrameAmended ==
  [][ \A q \in Principals : Deleted(q) =>
        \A i \in DOMAIN db :
          LET inProjectOfQ == db[i].tbl = "tasks" /\ ProjectOf(db, db[i].project_id, q)
          IN  /\ (db[i].tbl \in CascadeTables /\ db[i].owner = q) => db'[i] = NoRow
              /\ (db[i].tbl = "templates" /\ db[i].owner = q)
                   => db'[i] = [db[i] EXCEPT !.owner = NULL]
              /\ inProjectOfQ => db'[i] = NoRow
              /\ (db[i].tbl = "tasks" /\ db[i].owner # q /\ db[i].assigned_to = q /\ ~inProjectOfQ)
                   => db'[i] = [db[i] EXCEPT !.assigned_to = NULL]
              /\ (db[i].owner # q /\ ~(db[i].tbl = "tasks" /\ db[i].assigned_to = q) /\ ~inProjectOfQ)
                   => db'[i] = db[i] ]_vars

\* deleteAccount went through and changed every row: what is left is a
\* template without uploader and a task of the other principal without
\* assignee
C12_Witness ==
  /\ last.op = "deleteAccount" /\ last.ok
  /\ ~HasProfile(last.by)
  /\ last.num = MaxAccountRows
  /\ \E i \in DOMAIN db : db[i].tbl = "templates" /\ db[i].owner = NULL
  /\ \E i \in DOMAIN db : db[i].tbl = "tasks" /\ db[i].owner # last.by /\ db[i].assigned_to = NULL

---------------------------------------------------------------------------
(* AuthProvider on mount with a session: getInitialSession and the         *)
(* onAuthStateChange callback each call fetchProfile(session.user.id), and *)
(* the two calls interleave at their awaits.  Here db holds the rows of    *)
(* user_profiles, one slot for the row stored before and one for the row   *)
(* each call may insert; user_profiles holds the row the id selects.       *)

\* the two calls of fetchProfile
Fetchers == {"getInitialSession", "onAuthStateChange"}

FetchSlots == Principals \X ({"stored"} \cup Fetchers)

\* the rows of user_profiles with id = q
ProfileRows(d, q) == {sl \in DOMAIN d : d[sl].tbl = "user_profiles" /\ d[sl].owner = q}

\* the mutant has no PRIMARY KEY on id
ProfileInsertAcceptedNoKey(p, q) ==
  CanInsert(p, ProfileRow(q)) /\ CanSelect(p, ProfileRow(q))

\* insert([{id: q, ...}]).select().single() by p: id uuid PRIMARY KEY, the
\* INSERT check, and the SELECT policy for the row returned
ProfileInsertAccepted(p, q) ==
  /\ ProfileRows(db, q) = {}
  /\ CanInsert(p, ProfileRow(q))
  /\ CanSelect(p, ProfileRow(q))

SetPc(p, f, pc) == [view EXCEPT ![p][f] = pc]

\* fetchProfile up to the answer of select('*').eq('id', userId).maybeSingle()
FetchSelect(p, f) ==
  /\ view[p][f] = "select"
  /\ LET found == ProfileRows(db, p) # {} /\ CanSelect(p, ProfileRow(p))
     IN  /\ profile' = IF found THEN [profile EXCEPT ![p] = user_profiles[p]] ELSE profile
         /\ view' = SetPc(p, f, IF found THEN "done" ELSE "insert")
         /\ last' = Request("fetchProfile.select", p, "user_profiles", 0, p, f, found)
  /\ UNCHANGED <<user_profiles, db>>

\* fetchProfile from the insert of the missing profile to its end
FetchInsert(p, f) ==
  /\ view[p][f] = "insert"
  /\ LET new == [role |-> "user", nama |-> "n"]
         ok == ProfileInsertAccepted(p, p)
     IN  /\ db' = IF ok THEN [db EXCEPT ![<<p, f>>] = ProfileRow(p)] ELSE db
         /\ user_profiles' = IF ok THEN [user_profiles EXCEPT ![p] = new] ELSE user_profiles
         /\ profile' = IF ok THEN [profile EXCEPT ![p] = new] ELSE profile
         /\ last' = Request("fetchProfile.insert", p, "user_profiles", 0, p, f, ok)
  /\ view' = SetPc(p, f, "done")

\* each principal has a session and opens the application; its profile row
\* exists or not
InitFetch ==
  /\ user_profiles \in [Principals -> {NoProfile} \cup {[role |-> r, nama |-> "n"] : r \in Roles}]
  /\ db = [sl \in FetchSlots |->
             IF sl[2] = "stored" /\ HasProfile(sl[1]) THEN ProfileRow(sl[1]) ELSE NoRow]
  /\ profile = [p \in Principals |-> NoProfile]
  /\ last = NoRequest
  /\ view = [p \in Principals |-> [f \in Fetchers |-> "select"]]

NextFetch ==
  \/ \E p \in Principals, f \in Fetchers : FetchSelect(p, f)
  \/ \E p \in Principals, f \in Fetchers : FetchInsert(p, f)

\* every call that has started runs to its end
SpecFetch == InitFetch /\ [][NextFetch]_vars /\ WF_vars(NextFetch)

\* C13: a principal never has two profile rows; no step inserts a row for,
\* or alters the row of, a principal that has one; the row a step inserts
\* for a principal without one is the only one, has that principal's id and
\* role 'user'; and in the end the context profile of each session is the
\* stored row.
C13_LazyProfile ==
  /\ [](\A p \in Principals : Cardinality(ProfileRows(db, p)) <= 1)
  /\ [][ \A p \in Principals :
           /\ HasProfile(p)
                => (user_profiles'[p] = user_profiles[p] /\ ProfileRows(db', p) = ProfileRows(db, p))
           /\ (~HasProfile(p) /\ ProfileRows(db', p) # {})
                => /\ Cardinality(ProfileRows(db', p)) = 1
                   /\ last'.by = p
                   /\ user_profiles'[p].role = "user" ]_vars
  /\ \A p \in Principals : <>[](HasProfile(p) /\ profile[p] = user_profiles[p])

\* both calls of a principal without profile saw no row; one insert went
\* through, the other was rejected, and the context holds the stored row
C13_Witness ==
  /\ last.op = "fetchProfile.insert" /\ ~last.ok
  /\ \A f \in Fetchers : view[last.by][f] = "done"
  /\ \E f \in Fetchers : f # last.arg /\ db[<<last.by, f>>] = ProfileRow(last.by)
  /\ db[<<last.by, "stored">>] = NoRow
  /\ profile[last.by] = user_profiles[last.by] /\ RoleOf(last.by) = "user"

---------------------------------------------------------------------------
(* LiveHost.handleSubmit and handleDelete, and the live hours of today on  *)
(* the Dashboard (fetchDashboardData).  In this part view is todayLiveHours *)
(* of each principal's Dashboard, in tenths of an hour.                    *)

\* number of row slots of the store in this part
MaxLiveRows == 2

LiveIds == 1..MaxLiveRows

\* values of formData.total_hours, in tenths of an hour (step="0.1"), zero
\* included
FormHours == {0, 1, 2}

\* the log rows p sees: LiveHost.fetchLogs
LogListed(p, id) ==
  /\ RowExists(db, id) /\ db[id].tbl = "live_manual_log"
  /\ CanSelect(p, db[id])
  /\ profile[p].role = "admin" \/ db[id].owner = p

\* canEdit(log)
CanEditLog(p, log) == profile[p].role = "admin" \/ log.owner = p

\* LiveHost.handleSubmit with editingLog = null and a host name
LiveSubmitCreate(p, live_date, total_hours) ==
  /\ FreeIds(db) # {}
  /\ IF total_hours <= 0
       THEN /\ last' = [Request("LiveHost.handleSubmit", p, "live_manual_log", 0, p, live_date, FALSE)
                          EXCEPT !.num = total_hours]
            /\ UNCHANGED db
       ELSE LET new == [DefaultRow("live_manual_log", p)
                          EXCEPT !.date = live_date, !.amount = total_hours]
                ok == InsertAccepted(p, db, new)
            IN  /\ db' = IF ok THEN [db EXCEPT ![NewId(db)] = new] ELSE db
                /\ last' = [Request("LiveHost.handleSubmit", p, "live_manual_log", NewId(db), p,
                                    live_date, ok)
                              EXCEPT !.num = total_hours]
  /\ UNCHANGED <<user_profiles, profile, view>>

\* LiveHost.handleDelete(id), confirmed
LiveDelete(p, id) ==
  /\ LogListed(p, id) /\ CanEditLog(p, db[id])
  /\ LET ok == DeleteAccepted(p, db, id)
     IN  /\ db' = IF ok THEN AfterDelete(db, id) ELSE db
         /\ last' = Request("LiveHost.handleDelete", p, "live_manual_log", id, db[id].owner, "-", ok)
  /\ UNCHANGED <<user_profiles, profile, view>>

\* liveData: select('total_hours').eq('user_id', user.id).eq('live_date', today)
LiveData(p, today) ==
  {i \in DOMAIN db :
     /\ db[i].tbl = "live_manual_log"
     /\ CanSelect(p, db[i])
     /\ db[i].owner = p
     /\ db[i].date = today}

RECURSIVE Reduce(_, _)
\* rows.reduce((sum, log) => sum + (log.total_hours || 0), 0)
Reduce(d, rows) ==
  IF rows = {} THEN 0
  ELSE LET i == CHOOSE k \in rows : \A j \in rows : k <= j
       IN  Reduce(d, rows \ {i}) + d[i].amount

\* the mutant reads one row, as the query for today's content does
TotalLiveHoursSingleRow(p, today) ==
  IF LiveData(p, today) = {} THEN 0
  ELSE db[CHOOSE k \in LiveData(p, today) : \A j \in LiveData(p, today) : k <= j].amount

\* totalLiveHours of fetchDashboardData
TotalLiveHours(p, today) == Reduce(db, LiveData(p, today))

\* fetchDashboardData on the date today, as far as live hours go
FetchDashboardData(p, today) ==
  /\ view' = [view EXCEPT ![p] = TotalLiveHours(p, today)]
  /\ last' = [Request("fetchDashboardData", p, "live_manual_log", 0, p, today, TRUE)
                EXCEPT !.num = TotalLiveHours(p, today)]
  /\ UNCHANGED <<user_profiles, db, profile>>

InitLive ==
  /\ user_profiles = UserAndAdmin
  /\ db = [i \in LiveIds |-> NoRow]
  /\ profile = user_profiles
  /\ last = NoRequest
  /\ view = [p \in Principals |-> 0]

NextLive ==
  \/ \E p \in Principals, dt \in Dates, h \in FormHours : LiveSubmitCreate(p, dt, h)
  \/ \E p \in Principals, id \in LiveIds : LiveDelete(p, id)
  \/ \E p \in Principals, dt \in Dates : FetchDashboardData(p, dt)

SpecLive == InitLive /\ [][NextLive]_vars

\* the stored live logs of p on a date
LogsOn(p, dt) ==
  {i \in DOMAIN db : db[i].tbl = "live_manual_log" /\ db[i].owner = p /\ db[i].date = dt}

\* the sum of total_hours over the logs of p on a date, hour value by hour value
HoursOn(p, dt) ==
  LET count(h) == Cardinality({i \in LogsOn(p, dt) : db[i].amount = h})
  IN  0 * count(0) + 1 * count(1) + 2 * count(2)

\* C14: an insert of LiveHost.handleSubmit with hours above zero is accepted
\* whatever rows the principal has for that date, and the live hours a
\* Dashboard fetch has just computed are the sum of total_hours over the
\* principal's rows of that day.
C14_LiveHoursToday ==
  /\ (last.op = "LiveHost.handleSubmit" /\ last.num > 0) => last.ok
  /\ last.op = "fetchDashboardData"
       => (view[last.by] = HoursOn(last.by, last.arg) /\ last.num = view[last.by])

\* the Dashboard shows the sum of two logs of the same principal and date
C14_Witness ==
  /\ last.op = "fetchDashboardData"
  /\ Cardinality(LogsOn(last.by, last.arg)) >= 2
  /\ view[last.by] = HoursOn(last.by, last.arg)
  /\ view[last.by] > 2

---------------------------------------------------------------------------
(* ContentTracker: handleSubmit, handleDelete and fetchLogs.  In this part *)
(* view maps each mounted ContentTracker to its user, its logs state (the  *)
(* log_date of each listed row) and whether a fetchLogs() it started has   *)
(* yet to answer.                                                          *)

\* number of row slots of the store in this part
MaxContentRows == 2

ContentIds == 1..MaxContentRows

\* browser sessions with the ContentTracker page open
Sessions == {"s1", "s2"}

\* the value of formData.content_count the sessions enter
FormCounts == {1}

\* a row that is not in the list
Unlisted == "-"

\* the mutant has UNIQUE (user_id, log_date) on content_log
ContentInsertAcceptedUnique(p, d, new) ==
  /\ InsertAccepted(p, d, new)
  /\ ~\E i \in DOMAIN d :
        d[i].tbl = "content_log" /\ d[i].owner = new.owner /\ d[i].date = new.date

\* insert into content_log: the constraints and policies of the table
ContentInsertAccepted(p, d, new) == InsertAccepted(p, d, new)

\* logs.find(log => log.log_date === formData.log_date)
ExistingLog(s, log_date) == \E i \in DOMAIN view[s].logs : view[s].logs[i] = log_date

\* handleSubmit with editingLog = null.  id 0: no insert was issued
ContentSubmitNew(s, log_date, content_count) ==
  LET p == view[s].user
  IN  /\ FreeIds(db) # {}
      /\ IF ExistingLog(s, log_date)
           THEN /\ last' = Request("ContentTracker.handleSubmit", p, "content_log", 0, p, log_date, FALSE)
                /\ UNCHANGED <<db, view>>
           ELSE LET new == [DefaultRow("content_log", p)
                              EXCEPT !.date = log_date, !.amount = content_count]
                    ok == ContentInsertAccepted(p, db, new)
                IN  /\ db' = IF ok THEN [db EXCEPT ![NewId(db)] = new] ELSE db
                    /\ last' = Request("ContentTracker.handleSubmit", p, "content_log", NewId(db),
                                       p, log_date, ok)
                    /\ view' = IF ok THEN [view EXCEPT ![s].fetching = TRUE] ELSE view
      /\ UNCHANGED <<user_profiles, profile>>

\* handleEdit(log), then handleSubmit with editingLog = log
ContentSubmitEdit(s, id, content_count) ==
  LET p == view[s].user
  IN  /\ view[s].logs[id] # Unlisted
      /\ LET new == [db[id] EXCEPT !.amount = content_count]
             ok == UpdateAccepted(p, db, id, new)
         IN  /\ db' = IF ok THEN [db EXCEPT ![id] = new] ELSE db
             /\ last' = Request("ContentTracker.handleSubmit", p, "content_log", id, p, "edit", ok)
      /\ view' = [view EXCEPT ![s].fetching = TRUE]
      /\ UNCHANGED <<user_profiles, profile>>

\* handleDelete(id), confirmed
ContentDelete(s, id) ==
  LET p == view[s].user
  IN  /\ view[s].logs[id] # Unlisted
      /\ LET ok == DeleteAccepted(p, db, id)
         IN  /\ db' = IF ok THEN AfterDelete(db, id) ELSE db
             /\ last' = Request("ContentTracker.handleDelete", p, "content_log", id, p, "-", ok)
      /\ view' = [view EXCEPT ![s].fetching = TRUE]
      /\ UNCHANGED <<user_profiles, profile>>

\* the answer of a fetchLogs() arrives: setLogs(data)
FetchLogs(s) ==
  LET p == view[s].user
  IN  /\ view[s].fetching
      /\ view' = [view EXCEPT
                    ![s].fetching = FALSE,
                    ![s].logs = [i \in DOMAIN db |->
                                   IF db[i].tbl = "content_log" /\ CanSelect(p, db[i]) /\ db[i].owner = p
                                     THEN db[i].date ELSE Unlisted]]
      /\ last' = Request("fetchLogs", p, "content_log", 0, p, "-", TRUE)
      /\ UNCHANGED <<user_profiles, db, profile>>

\* the pages in ss are open, signed in as u1, and have fetched the empty list
InitContentWith(ss) ==
  /\ user_profiles = UserAndAdmin
  /\ db = [i \in ContentIds |-> NoRow]
  /\ profile = user_profiles
  /\ last = NoRequest
  /\ view = [s \in ss |-> [user |-> "u1", fetching |-> FALSE,
                           logs |-> [i \in ContentIds |-> Unlisted]]]

NextContent ==
  \/ \E s \in DOMAIN view, dt \in Dates, c \in FormCounts : ContentSubmitNew(s, dt, c)
  \/ \E s \in DOMAIN view, id \in ContentIds, c \in FormCounts : ContentSubmitEdit(s, id, c)
  \/ \E s \in DOMAIN view, id \in ContentIds : ContentDelete(s, id)
  \/ \E s \in DOMAIN view : FetchLogs(s)

\* one ContentTracker session
InitContentOne == InitContentWith({"s1"})

SpecContentOne == InitContentOne /\ [][NextContent]_vars

\* two ContentTracker sessions of one principal
InitContent == InitContentWith(Sessions)

SpecContent == InitContent /\ [][NextContent]_vars

\* the content logs of p on a date
ContentOn(d, p, dt) ==
  {i \in DOMAIN d : d[i].tbl = "content_log" /\ d[i].owner = p /\ d[i].date = dt}

\* C15: in one session, a new submission for a date on which the principal
\* has a stored entry changes no row, and after every step there is at most
\* one content_log row per principal and date.
C15_OneEntryPerDate ==
  [][ /\ (last'.op = "ContentTracker.handleSubmit" /\ last'.arg \in Dates
            /\ ContentOn(db, last'.by, last'.arg) # {})
         => db' = db
      /\ \A p \in Principals, dt \in Dates : Cardinality(ContentOn(db', p, dt)) <= 1 ]_vars

\* C16: the store accepts every insert ContentTracker issues, whatever rows
\* exist for that principal and date; two rows for one principal and date
\* can be stored.
C16_StoreTakesDuplicates ==
  (last.op = "ContentTracker.handleSubmit" /\ last.arg \in Dates /\ last.id # 0) => last.ok

\* two sessions, each with the empty list it fetched and a refresh pending
\* after its insert, and two rows for the same principal and date
C16_Witness ==
  /\ DOMAIN view = Sessions
  /\ \A s \in Sessions : view[s].fetching /\ \A i \in ContentIds : view[s].logs[i] = Unlisted
  /\ \E dt \in Dates : Cardinality(ContentOn(db, "u1", dt)) = 2
  /\ last.op = "ContentTracker.handleSubmit" /\ last.ok

---------------------------------------------------------------------------
(* useRealTimeSync in a page that lists a table (Projects, Tasks,          *)
(* LiveHost).  In this part view is one browser session: who uses it, the  *)
(* AuthContext user, whether the page is mounted, the table it lists, the  *)
(* channels of the supabase client, the change events that have reached    *)
(* the client and wait for their callback, and the list state.             *)

\* number of row slots of the store in this part
MaxRealtimeRows == 2

RealtimeIds == 1..MaxRealtimeRows

\* change events that can wait for their callback
MaxPending == 1

\* channels the client can hold
MaxChannels == 2

\* the pages that call useRealTimeSync with the admin-or-owner filter
SyncedTables == {"projects", "tasks", "live_manual_log"}

\* filter: undefined
Undefined == "undefined"

\* filter: profile?.role === 'admin' ? undefined : `user_id=eq.${user?.id}`;
\* a filter is written as the principal its user_id=eq. names
PageFilter(prof, p) == IF prof.role = "admin" THEN Undefined ELSE p

\* filter || `user_id=eq.${user.id}`
HookFilter(filter, user) == IF filter = Undefined THEN user ELSE filter

\* the row is one the filter lets through
FilterMatches(filter, row) == filter = Undefined \/ row.owner = filter

\* what fetchProjects / fetchTasks / fetchLogs puts in the list
Fetched(d, p, prof, tbl) ==
  [i \in DOMAIN d |->
     IF /\ d[i].tbl = tbl
        /\ CanSelect(p, d[i])
        /\ prof.role = "admin" \/ d[i].owner = p \/ (tbl = "tasks" /\ d[i].assigned_to = p)
       THEN d[i] ELSE NoRow]

\* the mutant's cleanup leaves the channel in place
CleanupKeepsChannel(channels) == channels

\* the cleanup of the effect: supabase.removeChannel(channel)
Cleanup(channels) == IF channels = <<>> THEN <<>> ELSE SubSeq(channels, 1, Len(channels) - 1)

\* the effect of useRealTimeSync runs again: cleanup of the previous run,
\* then, with a user, a new subscribed channel
RunEffect(channels, user, prof, tbl) ==
  IF user = NULL
    THEN Cleanup(channels)
    ELSE Append(Cleanup(channels),
                [table |-> tbl, filter |-> HookFilter(PageFilter(prof, user), user)])

\* the page mounts: useRealTimeSync's effect and the fetch effect run
PageMount ==
  /\ ~view.mounted
  /\ view' = [view EXCEPT
                !.mounted = TRUE,
                !.channels = IF view.user = NULL THEN view.channels
                             ELSE Append(view.channels,
                                         [table |-> view.table,
                                          filter |-> HookFilter(PageFilter(profile[view.who], view.user),
                                                                view.user)]),
                !.list = IF view.user = NULL THEN view.list
                         ELSE Fetched(db, view.user, profile[view.who], view.table)]
  /\ last' = Request("mount", view.who, view.table, 0, NULL, "-", view.user # NULL)
  /\ UNCHANGED <<user_profiles, db, profile>>

\* the page unmounts: the cleanup runs; events not yet handled are dropped
PageUnmount ==
  /\ view.mounted
  /\ view' = [view EXCEPT !.mounted = FALSE, !.channels = Cleanup(view.channels),
                          !.pending = <<>>, !.list = [i \in RealtimeIds |-> NoRow]]
  /\ last' = Request("unmount", view.who, view.table, 0, NULL, "-", TRUE)
  /\ UNCHANGED <<user_profiles, db, profile>>

\* the page renders again: onUpdate is a new function, so the effect re-runs
Rerender ==
  /\ view.mounted
  /\ Len(view.channels) < MaxChannels
  /\ view' = [view EXCEPT
                !.channels = RunEffect(view.channels, view.user, profile[view.who], view.table),
                !.pending = <<>>]
  /\ last' = Request("render", view.who, view.table, 0, NULL, "-", TRUE)
  /\ UNCHANGED <<user_profiles, db, profile>>

\* onAuthStateChange with no session: setUser(null), setProfile(null)
SignedOut ==
  /\ view.user # NULL
  /\ profile' = [profile EXCEPT ![view.who] = NoProfile]
  /\ view' = [view EXCEPT
                !.user = NULL,
                !.channels = IF view.mounted THEN Cleanup(view.channels) ELSE view.channels,
                !.pending = <<>>]
  /\ last' = Request("SIGNED_OUT", view.who, view.table, 0, NULL, "-", TRUE)
  /\ UNCHANGED <<user_profiles, db>>

\* onAuthStateChange with a session: setUser(session.user); the profile
\* has not been fetched yet
SignedIn ==
  /\ view.user = NULL
  /\ Len(view.channels) < MaxChannels
  /\ LET w == view.who
     IN  view' = [view EXCEPT
                    !.user = w,
                    !.channels = IF view.mounted
                                   THEN RunEffect(view.channels, w, profile[w], view.table)
                                   ELSE view.channels,
                    !.list = IF view.mounted THEN Fetched(db, w, profile[w], view.table)
                             ELSE view.list]
  /\ last' = Request("SIGNED_IN", view.who, view.table, 0, NULL, "-", TRUE)
  /\ UNCHANGED <<user_profiles, db, profile>>

\* fetchProfile answers: setProfile(data).  The filter and the fetch effect
\* depend on profile, so both run again
ProfileLoaded ==
  /\ view.user # NULL
  /\ HasProfile(view.who)
  /\ profile[view.who] # user_profiles[view.who]
  /\ Len(view.channels) < MaxChannels
  /\ LET w == view.who
         prof == user_profiles[w]
     IN  /\ profile' = [profile EXCEPT ![w] = prof]
         /\ view' = [view EXCEPT
                       !.channels = IF view.mounted
                                      THEN RunEffect(view.channels, w, prof, view.table)
                                      ELSE view.channels,
                       !.pending = IF view.mounted THEN <<>> ELSE view.pending,
                       !.list = IF view.mounted THEN Fetched(db, w, prof, view.table)
                                ELSE view.list]
  /\ last' = Request("setProfile", view.who, view.table, 0, NULL, "-", TRUE)
  /\ UNCHANGED <<user_profiles, db>>

\* the change events the client's channels receive for a change of row:
\* the row is on the channel's table, passes the channel's filter and is
\* one the subscriber may select
EventsFor(kind, id, row) ==
  IF \E i \in DOMAIN view.channels :
       /\ view.channels[i].table = row.tbl
       /\ FilterMatches(view.channels[i].filter, row)
       /\ CanSelect(view.who, row)
    THEN <<[eventType |-> kind, id |-> id, row |-> row]>>
    ELSE <<>>

\* an insert of any principal, from any session, into the table the page lists
StoreInsert(q, owner) ==
  /\ FreeIds(db) # {}
  /\ Len(view.pending) < MaxPending
  /\ LET new == DefaultRow(view.table, owner)
         ok == InsertAccepted(q, db, new)
     IN  /\ db' = IF ok THEN [db EXCEPT ![NewId(db)] = new] ELSE db
         /\ view' = IF ok THEN [view EXCEPT !.pending = @ \o EventsFor("INSERT", NewId(db), new)]
                          ELSE view
         /\ last' = Request("insert", q, view.table, NewId(db), owner, "-", ok)
  /\ UNCHANGED <<user_profiles, profile>>

\* an update of a listed table's row by any principal; it sets updated_at,
\* which the rows here do not carry
StoreUpdate(q, id) ==
  /\ RowExists(db, id)
  /\ Len(view.pending) < MaxPending
  /\ LET new == db[id]
         ok == UpdateAccepted(q, db, id, new)
     IN  /\ db' = IF ok THEN [db EXCEPT ![id] = new] ELSE db
         /\ view' = IF ok THEN [view EXCEPT !.pending = @ \o EventsFor("UPDATE", id, new)]
                          ELSE view
         /\ last' = Request("update", q, view.table, id, db[id].owner, "-", ok)
  /\ UNCHANGED <<user_profiles, profile>>

\* a delete of a listed table's row by any principal
StoreDelete(q, id) ==
  /\ RowExists(db, id)
  /\ Len(view.pending) < MaxPending
  /\ LET ok == DeleteAccepted(q, db, id)
     IN  /\ db' = IF ok THEN AfterDelete(db, id) ELSE db
         /\ view' = IF ok THEN [view EXCEPT !.pending = @ \o EventsFor("DELETE", id, db[id])]
                          ELSE view
         /\ last' = Request("delete", q, view.table, id, db[id].owner, "-", ok)
  /\ UNCHANGED <<user_profiles, profile>>

\* the mutant puts the payload's row into the list
OnEventMergePayload(list, payload) ==
  [list EXCEPT ![payload.id] = IF payload.eventType = "DELETE" THEN NoRow ELSE payload.row]

\* the callback of .on('postgres_changes', ...): onUpdate(), the page's
\* fetch, whose answer replaces the list
OnEvent(list, payload) == Fetched(db, view.user, profile[view.who], view.table)

\* the callback runs for the first waiting event
Deliver ==
  /\ view.pending # <<>>
  /\ view' = [view EXCEPT !.pending = Tail(@), !.list = OnEvent(view.list, Head(view.pending))]
  /\ last' = Request("postgres_changes", view.who, view.table, Head(view.pending).id,
                     Head(view.pending).row.owner, Head(view.pending).eventType, TRUE)
  /\ UNCHANGED <<user_profiles, db, profile>>

\* a browser of either principal, signed in, profile loaded, page not yet
\* mounted, on one of the three pages
InitRealtime ==
  /\ user_profiles = UserAndAdmin
  /\ db = [i \in RealtimeIds |-> NoRow]
  /\ profile = user_profiles
  /\ last = NoRequest
  /\ view \in {[who |-> w, user |-> w, mounted |-> FALSE, table |-> t, channels |-> <<>>,
                pending |-> <<>>, list |-> [i \in RealtimeIds |-> NoRow]] :
                 w \in Principals, t \in SyncedTables}

NextRealtime ==
  \/ PageMount
  \/ PageUnmount
  \/ Rerender
  \/ SignedOut
  \/ SignedIn
  \/ ProfileLoaded
  \/ \E q \in Principals, o \in Principals : StoreInsert(q, o)
  \/ \E q \in Principals, id \in RealtimeIds : StoreUpdate(q, id)
  \/ \E q \in Principals, id \in RealtimeIds : StoreDelete(q, id)
  \/ Deliver

SpecRealtime == InitRealtime /\ [][NextRealtime]_vars

\* the list a fetch of the page would show now
FetchedNow == Fetched(db, view.user, profile[view.who], view.table)

\* C17: when the callback of a change event has run, the list is the result
\* of a fetch of the whole list, not the old list with the event's row put in.
C17_EventRefetches ==
  last.op = "postgres_changes" => view.list = FetchedNow

\* an admin's page has handled the event of its own row and lists, besides,
\* a row of the other principal, for whose insert no event came
C17_Witness ==
  /\ last.op = "postgres_changes" /\ last.owner = view.who
  /\ view.list = FetchedNow
  /\ \E i \in RealtimeIds : i # last.id /\ view.list[i] # NoRow /\ view.list[i].owner # view.who

ChangeOps == {"insert", "update", "delete"}

\* C18: with a channel open, an accepted change of any row of the table
\* reaches an admin's page; a non-admin's page is reached by exactly the
\* changes of rows whose user_id is the principal.
C18_AdminUnfiltered ==
  (last.op \in ChangeOps /\ last.ok /\ view.channels # <<>>)
    => IF profile[view.who].role = "admin"
         THEN view.pending # <<>>
         ELSE (view.pending # <<>>) <=> (last.owner = view.who)

\* C19: the client holds at most one channel; it holds none while the page
\* is not mounted or no user is signed in, and otherwise the one for the
\* page's table and current filter.
C19_OneChannelPerView ==
  /\ Len(view.channels) <= 1
  /\ (~view.mounted \/ view.user = NULL) => view.channels = <<>>
  /\ (view.mounted /\ view.user # NULL)
       => view.channels = <<[table |-> view.table,
                             filter |-> HookFilter(PageFilter(profile[view.who], view.user), view.user)]>>

\* a render has replaced the channel of a mounted page
C19_Witness ==
  /\ last.op = "render"
  /\ view.mounted /\ view.user # NULL
  /\ Len(view.channels) = 1

---------------------------------------------------------------------------
(* The create / update / delete handlers of the pages (Projects, Tasks,    *)
(* LiveHost, ContentTracker: handleSubmit and handleDelete; Calendar:      *)
(* handleSaveNote and handleDeleteNote), which share one shape: request,   *)
(* `if (error) throw error`, success toast, reset of the modal state and   *)
(* re-fetch, all inside try, and a catch that logs and shows a toast.       *)
(* In this part view is one page: who uses it, the table, showModal, the   *)
(* editing target (0 for null), the form's text and the list.              *)

\* number of row slots of the store in this part
MaxFormRows == 1

FormIds == 1..MaxFormRows

\* the request reaches the store, or the network fails it
Network == {"up", "down"}

\* the text of an empty form
EmptyForm == "a"

\* { error } of an insert: rejected rows come back as errors
InsertError(p, d, new, net) == net = "down" \/ ~InsertAccepted(p, d, new)

\* { error } of an update: a row the policies hide from the update is no
\* error, the update matches nothing; a rejected new row is one
UpdateError(p, d, id, new, net) ==
  \/ net = "down"
  \/ /\ RowExists(d, id)
     /\ UsingHolds("SELECT", p, d[id]) /\ UsingHolds("UPDATE", p, d[id])
     /\ ~(CheckHolds("UPDATE", p, new) /\ ConstraintsHold(d, new))

\* { error } of a delete
DeleteError(p, d, id, net) == net = "down"

\* the list the page's fetch returns
FormFetched(d, p, tbl) ==
  [i \in DOMAIN d |->
     IF d[i].tbl = tbl /\ CanSelect(p, d[i]) /\ (profile[p].role = "admin" \/ d[i].owner = p)
       THEN d[i] ELSE NoRow]

\* the mutant resets the modal state whether or not the request failed
AfterHandlerAlwaysResets(v, failed, list) ==
  [v EXCEPT !.showModal = FALSE, !.editing = 0, !.form = EmptyForm, !.list = list]

\* the page state a handler leaves: the statements after `if (error) throw
\* error` run only without error
AfterHandler(v, failed, list) ==
  IF failed THEN v
  ELSE [v EXCEPT !.showModal = FALSE, !.editing = 0, !.form = EmptyForm, !.list = list]

\* the "add" button: setShowModal(true)
OpenNew ==
  /\ ~view.showModal
  /\ view' = [view EXCEPT !.showModal = TRUE]
  /\ last' = Request("openModal", view.who, view.table, 0, NULL, "-", TRUE)
  /\ UNCHANGED <<user_profiles, db, profile>>

\* handleEdit(row) of a listed row
OpenEdit(id) ==
  /\ ~view.showModal
  /\ view.list[id] # NoRow
  /\ view' = [view EXCEPT !.showModal = TRUE, !.editing = id, !.form = view.list[id].txt]
  /\ last' = Request("handleEdit", view.who, view.table, id, NULL, "-", TRUE)
  /\ UNCHANGED <<user_profiles, db, profile>>

\* the cancel button of the modal
CancelModal ==
  /\ view.showModal
  /\ view' = [view EXCEPT !.showModal = FALSE, !.editing = 0, !.form = EmptyForm]
  /\ last' = Request("cancel", view.who, view.table, 0, NULL, "-", TRUE)
  /\ UNCHANGED <<user_profiles, db, profile>>

\* typing in the form
ChangeForm(txt) ==
  /\ view.showModal
  /\ view.form # txt
  /\ view' = [view EXCEPT !.form = txt]
  /\ last' = Request("onChange", view.who, view.table, 0, NULL, txt, TRUE)
  /\ UNCHANGED <<user_profiles, db, profile>>

\* handleSubmit / handleSaveNote; num counts the requests it issued
HandleSubmit(net) ==
  /\ view.showModal
  /\ IF view.editing # 0
       THEN LET id == view.editing
                new == [db[id] EXCEPT !.txt = view.form]
                failed == UpdateError(view.who, db, id, new, net)
                stored == ~failed /\ UpdateAccepted(view.who, db, id, new)
                after == IF stored THEN [db EXCEPT ![id] = new] ELSE db
            IN  /\ db' = after
                /\ view' = AfterHandler(view, failed, FormFetched(after, view.who, view.table))
                /\ last' = [Request("handleSubmit", view.who, view.table, id, view.who,
                                    IF failed THEN "error" ELSE "edit", stored)
                              EXCEPT !.num = 1]
       ELSE /\ FreeIds(db) # {}
            /\ LET new == [DefaultRow(view.table, view.who) EXCEPT !.txt = view.form]
                   failed == InsertError(view.who, db, new, net)
                   after == IF failed THEN db ELSE [db EXCEPT ![NewId(db)] = new]
               IN  /\ db' = after
                   /\ view' = AfterHandler(view, failed, FormFetched(after, view.who, view.table))
                   /\ last' = [Request("handleSubmit", view.who, view.table, NewId(db), view.who,
                                       IF failed THEN "error" ELSE "create", ~failed)
                                 EXCEPT !.num = 1]
  /\ UNCHANGED <<user_profiles, profile>>

\* the page state handleDelete leaves: the list pages only re-fetch; the
\* calendar's handleDeleteNote also closes the modal it is called from
AfterHandleDelete(v, failed, list) ==
  IF failed THEN v
  ELSE IF v.table = "calendar_notes" THEN AfterHandler(v, FALSE, list)
  ELSE [v EXCEPT !.list = list]

\* handleDelete(id), confirmed, from the list; handleDeleteNote from the
\* modal of the note being edited
HandleDelete(id, net) ==
  /\ view.list[id] # NoRow
  /\ IF view.table = "calendar_notes"
       THEN view.showModal /\ view.editing = id
       ELSE ~view.showModal
  /\ LET failed == DeleteError(view.who, db, id, net)
         stored == ~failed /\ DeleteAccepted(view.who, db, id)
         after == IF stored THEN AfterDelete(db, id) ELSE db
     IN  /\ db' = after
         /\ view' = AfterHandleDelete(view, failed, FormFetched(after, view.who, view.table))
         /\ last' = [Request("handleDelete", view.who, view.table, id, view.who,
                             IF failed THEN "error" ELSE "-", stored)
                       EXCEPT !.num = 1]
  /\ UNCHANGED <<user_profiles, profile>>

\* this principal's profile row is deleted from another session
\* (deleteAccount), which leaves this page's rows without owner row
ProfileRemoved ==
  /\ HasProfile(view.who)
  /\ user_profiles' = [user_profiles EXCEPT ![view.who] = NoProfile]
  /\ db' = AfterProfileDelete(db, view.who)
  /\ last' = Request("deleteAccount", view.who, "user_profiles", 0, view.who, "-", TRUE)
  /\ UNCHANGED <<profile, view>>

InitForm ==
  /\ user_profiles = UserAndAdmin
  /\ db = [i \in FormIds |-> NoRow]
  /\ profile = user_profiles
  /\ last = NoRequest
  /\ view \in {[who |-> w, table |-> t, showModal |-> FALSE, editing |-> 0, form |-> EmptyForm,
                list |-> [i \in FormIds |-> NoRow]] : w \in Principals, t \in OwnedTables}

NextForm ==
  \/ OpenNew
  \/ \E id \in FormIds : OpenEdit(id)
  \/ CancelModal
  \/ \E t \in Texts : ChangeForm(t)
  \/ \E net \in Network : HandleSubmit(net)
  \/ \E id \in FormIds, net \in Network : HandleDelete(id, net)
  \/ ProfileRemoved

SpecForm == InitForm /\ [][NextForm]_vars

HandlerOps == {"handleSubmit", "handleDelete"}

\* C20: a handler whose request came back with an error issued that one
\* request, stored nothing, and left the modal, the editing target, the
\* form and the list as they were.
C20_FailureKeepsView ==
  [][ (last'.op \in HandlerOps /\ last'.arg = "error")
        => (view' = view /\ db' = db /\ last'.num = 1) ]_vars

\* a failed submission of an edit: the modal is still open on the row, with
\* the text that was typed, which is not the stored one
C20_Witness ==
  /\ last.op = "handleSubmit" /\ last.arg = "error"
  /\ view.showModal /\ view.editing # 0
  /\ view.form # EmptyForm
  /\ db[view.editing].txt # view.form
  /\ view.list[view.editing] = db[view.editing]

---------------------------------------------------------------------------
(* AuthProvider and the routes of one browser tab.  In this part view is   *)
(* the provider's state (user, session, profile, loading; profile holds    *)
(* the id of the profile row it was set to), the session the client holds, *)
(* the calls in flight (getInitialSession, signIn, the fetchProfile  *)
(* calls in the order they were issued) and whether the listener's last    *)
(* event carried a session.                                                 *)

\* fetchProfile calls in flight at a time
MaxFetches == 2

\* slots of activity_log in this part
MaxAuthRows == 1

AuthEvents == {"SIGNED_IN", "TOKEN_REFRESHED", "SIGNED_OUT"}

\* `user` as the listener's closure sees it: the effect has no dependencies,
\* so its callback keeps the logActivity of the first render, whose user is
\* the initial state
ClosureUser == NULL

\* the listener from its start to its first await: the state setters, the
\* call of fetchProfile or the clearing of profile and loading
OnAuthStateChange(v, event, sessionUser) ==
  IF sessionUser # NULL
    THEN [v EXCEPT !.session = sessionUser, !.user = sessionUser, !.cleared = FALSE,
                   !.fetches = Append(@, [userId |-> sessionUser, event |-> event])]
    ELSE [v EXCEPT !.session = NULL, !.user = NULL, !.profile = NULL, !.loading = FALSE,
                   !.cleared = TRUE]

\* the client's session changes (stored is the session it holds) and the
\* event reaches the listener; without session nothing is awaited, so the
\* trailing logActivity runs in the same step
Listen(op, event, sessionUser) ==
  /\ sessionUser # NULL => Len(view.fetches) < MaxFetches
  /\ view' = [OnAuthStateChange(view, event, sessionUser) EXCEPT !.stored = sessionUser]
  /\ db' = IF event = "SIGNED_OUT" THEN LogActivity(db, ClosureUser, "Keluar dari sistem") ELSE db
  /\ last' = Request(op, sessionUser, "auth", 0, NULL, event, TRUE)
  /\ UNCHANGED <<user_profiles, profile>>

\* getInitialSession from the answer of getSession on
GetInitialSession(net) ==
  /\ view.initial
  /\ view' =
       IF net = "down" THEN [view EXCEPT !.initial = FALSE, !.loading = FALSE]
       ELSE IF view.stored # NULL
         THEN [view EXCEPT !.initial = FALSE, !.session = view.stored, !.user = view.stored,
                           !.fetches = Append(@, [userId |-> view.stored, event |-> "INITIAL"])]
         ELSE [view EXCEPT !.initial = FALSE, !.session = NULL, !.user = NULL, !.loading = FALSE]
  /\ last' = Request("getInitialSession", view.stored, "auth", 0, NULL, net, net = "up")
  /\ UNCHANGED <<user_profiles, db, profile>>

\* a fetchProfile call in flight gets its answer and runs to its end; the
\* listener then goes on to its logActivity
FetchProfileDone(i, net) ==
  /\ i \in 1..Len(view.fetches)
  /\ LET f == view.fetches[i]
         found == net = "up" /\ HasProfile(f.userId)
         created == net = "up" /\ ~HasProfile(f.userId)
         rest == [j \in 1..(Len(view.fetches) - 1) |->
                    IF j < i THEN view.fetches[j] ELSE view.fetches[j + 1]]
     IN  /\ user_profiles' =
              IF created THEN [user_profiles EXCEPT ![f.userId] = [role |-> "user", nama |-> "n"]]
              ELSE user_profiles
         /\ view' = [view EXCEPT !.profile = IF found \/ created THEN f.userId ELSE @,
                                 !.loading = FALSE, !.fetches = rest]
         /\ db' = IF f.event = "SIGNED_IN" THEN LogActivity(db, ClosureUser, "Masuk ke sistem")
                  ELSE db
         /\ last' = Request("fetchProfile", f.userId, "user_profiles", 0, f.userId, f.event,
                            found \/ created)
  /\ UNCHANGED profile

\* signIn from the login form, up to its await
SignIn(u) ==
  /\ ~view.loading /\ view.user = NULL /\ view.signin = NULL
  /\ view' = [view EXCEPT !.loading = TRUE, !.signin = u]
  /\ last' = Request("signIn", u, "auth", 0, NULL, "-", TRUE)
  /\ UNCHANGED <<user_profiles, db, profile>>

\* signInWithPassword answers: a session, announced to the listener, or an
\* error, which signIn throws on
SignInAnswer(accepted) ==
  /\ view.signin # NULL
  /\ IF accepted
       THEN /\ Len(view.fetches) < MaxFetches
            /\ view' = [OnAuthStateChange(view, "SIGNED_IN", view.signin)
                         EXCEPT !.signin = NULL, !.stored = view.signin]
            /\ last' = Request("onAuthStateChange", view.signin, "auth", 0, NULL, "SIGNED_IN", TRUE)
       ELSE /\ view' = [view EXCEPT !.signin = NULL]
            /\ last' = Request("signIn.error", view.signin, "auth", 0, NULL, "-", FALSE)
  /\ UNCHANGED <<user_profiles, db, profile>>

\* signOut from a page
SignOut ==
  /\ ~view.loading /\ view.user # NULL
  /\ Listen("onAuthStateChange", "SIGNED_OUT", NULL)

\* the client renews the token of the session it holds
TokenRefreshed ==
  /\ view.stored # NULL
  /\ Listen("onAuthStateChange", "TOKEN_REFRESHED", view.stored)

\* a sign-in or sign-out in another tab of the browser reaches this one
OtherTab(event, sessionUser) ==
  /\ event = "SIGNED_OUT" <=> sessionUser = NULL
  /\ event # "TOKEN_REFRESHED"
  /\ Listen("onAuthStateChange", event, sessionUser)

InitAuth ==
  /\ user_profiles \in {UserAndAdmin, [UserAndAdmin EXCEPT !["u1"] = NoProfile]}
  /\ db = [i \in 1..MaxAuthRows |-> NoRow]
  /\ profile = user_profiles
  /\ last = NoRequest
  /\ view \in {[stored |-> st, initial |-> TRUE, user |-> NULL, session |-> NULL,
                profile |-> NULL, loading |-> TRUE, signin |-> NULL, fetches |-> <<>>,
                cleared |-> FALSE] : st \in Principals \cup {NULL}}

NextAuth ==
  \/ \E net \in Network : GetInitialSession(net)
  \/ \E i \in 1..MaxFetches, net \in Network : FetchProfileDone(i, net)
  \/ \E u \in Principals : SignIn(u)
  \/ \E accepted \in BOOLEAN : SignInAnswer(accepted)
  \/ SignOut
  \/ TokenRefreshed
  \/ \E event \in AuthEvents, u \in Principals \cup {NULL} : OtherTab(event, u)

SpecAuth == InitAuth /\ [][NextAuth]_vars

\* C21: after the listener has processed an event without session, user,
\* session and profile are null and loading is false until an event brings
\* a session.
C21_ClearedOnSignOut ==
  view.cleared =>
    (view.user = NULL /\ view.session = NULL /\ view.profile = NULL /\ ~view.loading)

\* C23: when the listener has dealt with a SIGNED_IN event of a session user
\* (its fetchProfile is over and its logActivity has run), activity_log
\* holds a row 'Masuk ke sistem' of that user.
C23_SignInLogged ==
  [][ (last'.op = "fetchProfile" /\ last'.arg = "SIGNED_IN")
        => \E i \in DOMAIN db' :
             /\ db'[i].tbl = "activity_log"
             /\ db'[i].owner = last'.by
             /\ db'[i].txt = "Masuk ke sistem" ]_vars

ProtectedPaths ==
  {"/dashboard", "/projek", "/tugasan", "/kalendar", "/content", "/live", "/templates",
   "/analitik", "/tetapan"}

Spinner == [show |-> "spinner", to |-> "-"]

Navigate(to) == [show |-> "Navigate", to |-> to]

\* the mutant renders the children whoever asks
ProtectedRouteAnyUser(path, loading, user) ==
  IF loading THEN Spinner ELSE [show |-> "page", to |-> path]

\* what ProtectedRoute returns around the page of path
ProtectedRoute(path, loading, user) ==
  IF loading THEN Spinner
  ELSE IF user # NULL THEN [show |-> "page", to |-> path] ELSE Navigate("/login")

\* what AppRoutes returns at path
AppRoutes(path, loading, user) ==
  IF loading THEN Spinner
  ELSE CASE path = "/login" ->
              IF user # NULL THEN Navigate("/dashboard") ELSE [show |-> "LoginForm", to |-> path]
         [] path = "/" -> Navigate("/dashboard")
         [] OTHER -> ProtectedRoute(path, loading, user)

\* C25: a protected page is rendered only with loading false and a user;
\* with loading false, every protected path redirects to /login without
\* user and /login redirects to /dashboard with one.
C25_RouteGuard ==
  \A path \in ProtectedPaths :
    LET r == AppRoutes(path, view.loading, view.user)
    IN  /\ r.show = "page" => (~view.loading /\ view.user # NULL /\ r.to = path)
        /\ (~view.loading /\ view.user = NULL) => r = Navigate("/login")
        /\ (~view.loading /\ view.user # NULL) =>
             AppRoutes("/login", view.loading, view.user) = Navigate("/dashboard")

\* a protected page is shown once the profile of the signed-in user came
C25_Witness ==
  /\ last.op = "fetchProfile" /\ last.arg = "SIGNED_IN" /\ last.ok
  /\ view.user = last.by /\ view.profile = view.user
  /\ AppRoutes("/projek", view.loading, view.user) = [show |-> "page", to |-> "/projek"]

\* the calls in flight get their answers
SpecAuthFair ==
  /\ SpecAuth
  /\ WF_vars(\E net \in Network : GetInitialSession(net))
  /\ WF_vars(\E i \in 1..MaxFetches, net \in Network : FetchProfileDone(i, net))
  /\ WF_vars(\E accepted \in BOOLEAN : SignInAnswer(accepted))

\* C26: after a call of signIn, accepted or rejected, loading gets back to
\* false.
C26_SignInLeavesLoading == (view.signin # NULL) ~> (~view.loading)

\* C27: with no fetchProfile in flight, profile is null when user is, and
\* is the user's when both are set.
C27_ProfileMatchesUser ==
  (view.fetches = <<>> /\ ~view.initial) =>
    /\ view.user = NULL => view.profile = NULL
    /\ (view.user # NULL /\ view.profile # NULL) => view.profile = view.user

---------------------------------------------------------------------------
(* Two sessions that write the same rows from the lists they fetched       *)
(* earlier: the progress buttons of Tasks and the edit form of Templates.  *)
(* In this part view gives each principal the lists its pages show.  The   *)
(* store holds one task and one template of u1; u2 is an admin.            *)

\* the buttons of a task card, as the progress they ask for
Buttons(progress) ==
  {Max(0, progress - ButtonDelta), Min(100, progress + ButtonDelta), 100}

\* what fetchTasks and fetchTemplates put in the lists of p
Lists(d, p) ==
  [i \in DOMAIN d |->
     IF d[i].tbl = "templates" /\ CanSelect(p, d[i]) THEN d[i]
     ELSE Fetched(d, p, profile[p], "tasks")[i]]

\* the mutant's update names the row as it was read (a version check)
RowMatchUnchanged(d, id, seen) == RowExists(d, id) /\ d[id] = seen

\* .eq('id', id): the rows the update is for
RowMatch(d, id, seen) == RowExists(d, id)

\* a button of the task card in p's list: updateProgress with a progress
\* computed from the listed one, then fetchTasks
UpdateProgressFromList(p, taskId, newProgress) ==
  /\ view[p][taskId].tbl = "tasks" /\ CanEdit(p, view[p][taskId])
  /\ newProgress \in Buttons(view[p][taskId].progress)
  /\ LET new == [db[taskId] EXCEPT !.progress = newProgress, !.status = NewStatus(newProgress)]
         ok == RowMatch(db, taskId, view[p][taskId]) /\ UpdateAccepted(p, db, taskId, new)
         after == IF ok THEN [db EXCEPT ![taskId] = new] ELSE db
     IN  /\ db' = after
         /\ view' = [view EXCEPT ![p] = Lists(after, p)]
         /\ last' = [Request("updateProgress", p, "tasks", taskId, db[taskId].owner, "-", ok)
                       EXCEPT !.num = newProgress]
  /\ UNCHANGED <<user_profiles, profile>>

\* Templates.handleSubmit with editingTemplate a row of p's list and no new
\* file, then fetchTemplates
TemplateSubmitEdit(p, id, title) ==
  /\ view[p][id].tbl = "templates"
  /\ profile[p].role = "admin" \/ view[p][id].owner = p
  /\ LET new == [db[id] EXCEPT !.txt = title]
         ok == RowMatch(db, id, view[p][id]) /\ UpdateAccepted(p, db, id, new)
         after == IF ok THEN [db EXCEPT ![id] = new] ELSE db
     IN  /\ db' = after
         /\ view' = [view EXCEPT ![p] = Lists(after, p)]
         /\ last' = Request("Templates.handleSubmit", p, "templates", id, db[id].owner, title, ok)
  /\ UNCHANGED <<user_profiles, profile>>

\* p's pages fetch again (mount, realtime event)
Refetch(p) ==
  /\ view[p] # Lists(db, p)
  /\ view' = [view EXCEPT ![p] = Lists(db, p)]
  /\ last' = Request("fetch", p, "tasks", 0, NULL, "-", TRUE)
  /\ UNCHANGED <<user_profiles, db, profile>>

InitStale ==
  /\ user_profiles = UserAndAdmin
  /\ db = <<DefaultRow("tasks", "u1"), DefaultRow("templates", "u1")>>
  /\ profile = user_profiles
  /\ last = NoRequest
  /\ view = [p \in Principals |-> Lists(db, p)]

NextStale ==
  \/ \E p \in Principals, id \in DOMAIN db, n \in FormProgress :
       UpdateProgressFromList(p, id, n)
  \/ \E p \in Principals, id \in DOMAIN db, t \in Texts : TemplateSubmitEdit(p, id, t)
  \/ \E p \in Principals : Refetch(p)

SpecStale == InitStale /\ [][NextStale]_vars

\* C22: an update issued from a list read earlier is accepted without error
\* whatever was written in between, and the row then holds what it wrote.
C22_LastWriteWins ==
  [][ /\ last'.op = "updateProgress" =>
           /\ last'.ok
           /\ db'[last'.id].progress = last'.num
           /\ db'[last'.id].status = NewStatus(last'.num)
      /\ last'.op = "Templates.handleSubmit" =>
           (last'.ok /\ db'[last'.id].txt = last'.arg) ]_vars

\* u2 pressed +25 on a card still showing 0 after u1 had brought the task
\* to 50: the task is at 25, and u1's list still shows 50
C22_Witness ==
  /\ last.op = "updateProgress" /\ last.by = "u2" /\ last.ok
  /\ db[last.id].progress = 25
  /\ view["u1"][last.id].progress = 50

---------------------------------------------------------------------------
(* The form of LiveHost: the checks of handleSubmit before its request,    *)
(* and the CHECK of live_manual_log for requests that do not come from the *)
(* form.  In this part view is the page: who uses it, showModal, the       *)
(* editing target (0 for null), the form's host_name and total_hours (in   *)
(* tenths of an hour) and the list.                                         *)

\* number of row slots of the store in this part
MaxLiveFormRows == 1

\* host names typed in the form: nothing, a blank, a name
HostNames == {"", " ", "a"}

\* String.prototype.trim on these
Trim(str) == IF str = " " THEN "" ELSE str

\* total_hours a form or a request body can hold
HourValues == {-1, 0, 1}

\* the mutant lets zero hours through, as the table's CHECK does
FormValidZeroHours(host_name, total_hours) == Trim(host_name) # "" /\ total_hours >= 0

\* the two checks at the head of handleSubmit
FormValid(host_name, total_hours) == Trim(host_name) # "" /\ total_hours > 0

\* the add button
LiveOpenNew ==
  /\ ~view.showModal
  /\ view' = [view EXCEPT !.showModal = TRUE]
  /\ last' = Request("openModal", view.who, "live_manual_log", 0, NULL, "-", TRUE)
  /\ UNCHANGED <<user_profiles, db, profile>>

\* handleEdit(log) of a listed log
LiveHandleEdit(id) ==
  /\ ~view.showModal
  /\ view.list[id] # NoRow
  /\ view' = [view EXCEPT !.showModal = TRUE, !.editing = id,
                          !.host_name = view.list[id].txt, !.total_hours = view.list[id].amount]
  /\ last' = Request("handleEdit", view.who, "live_manual_log", id, NULL, "-", TRUE)
  /\ UNCHANGED <<user_profiles, db, profile>>

\* typing in the two fields
LiveChangeForm(host_name, total_hours) ==
  /\ view.showModal
  /\ <<host_name, total_hours>> # <<view.host_name, view.total_hours>>
  /\ view' = [view EXCEPT !.host_name = host_name, !.total_hours = total_hours]
  /\ last' = [Request("onChange", view.who, "live_manual_log", 0, NULL, host_name, TRUE)
                EXCEPT !.num = total_hours]
  /\ UNCHANGED <<user_profiles, db, profile>>

\* handleSubmit; arg tells whether a request went out and how it ended
LiveHandleSubmit(net) ==
  /\ view.showModal
  /\ IF ~FormValid(view.host_name, view.total_hours)
       THEN /\ net = "up"
            /\ last' = Request("LiveHost.handleSubmit", view.who, "live_manual_log", 0, view.who,
                               "no request", FALSE)
            /\ UNCHANGED <<db, view>>
       ELSE LET id == view.editing
                new == IF id # 0
                         THEN [db[id] EXCEPT !.txt = Trim(view.host_name), !.amount = view.total_hours]
                         ELSE [DefaultRow("live_manual_log", view.who)
                                 EXCEPT !.txt = Trim(view.host_name), !.amount = view.total_hours]
                failed == IF id # 0 THEN UpdateError(view.who, db, id, new, net)
                          ELSE InsertError(view.who, db, new, net)
                stored == ~failed /\ (id = 0 \/ UpdateAccepted(view.who, db, id, new))
                after == IF ~stored THEN db
                         ELSE IF id # 0 THEN [db EXCEPT ![id] = new]
                         ELSE [db EXCEPT ![NewId(db)] = new]
            IN  /\ id = 0 => FreeIds(db) # {}
                /\ db' = after
                /\ view' = IF failed THEN view
                           ELSE [view EXCEPT !.showModal = FALSE, !.editing = 0, !.host_name = "",
                                             !.total_hours = 0,
                                             !.list = FormFetched(after, view.who, "live_manual_log")]
                /\ last' = Request("LiveHost.handleSubmit", view.who, "live_manual_log", id, view.who,
                                   IF failed THEN "error" ELSE "saved", stored)
  /\ UNCHANGED <<user_profiles, profile>>

\* supabase.from('live_manual_log').insert([body]) sent without the form
ReqInsertLog(p, total_hours) ==
  /\ FreeIds(db) # {}
  /\ LET new == [DefaultRow("live_manual_log", p) EXCEPT !.amount = total_hours]
         ok == InsertAccepted(p, db, new)
     IN  /\ db' = IF ok THEN [db EXCEPT ![NewId(db)] = new] ELSE db
         /\ last' = [Request("insert", p, "live_manual_log", NewId(db), p, "-", ok)
                       EXCEPT !.num = total_hours]
  /\ UNCHANGED <<user_profiles, profile, view>>

\* the page fetches again (realtime event of a row of this user)
LiveFetchLogs ==
  /\ view.list # FormFetched(db, view.who, "live_manual_log")
  /\ view' = [view EXCEPT !.list = FormFetched(db, view.who, "live_manual_log")]
  /\ last' = Request("fetchLogs", view.who, "live_manual_log", 0, NULL, "-", TRUE)
  /\ UNCHANGED <<user_profiles, db, profile>>

InitLiveForm ==
  /\ user_profiles = UserAndAdmin
  /\ db = [i \in 1..MaxLiveFormRows |-> NoRow]
  /\ profile = user_profiles
  /\ last = NoRequest
  /\ view \in {[who |-> w, showModal |-> FALSE, editing |-> 0, host_name |-> "", total_hours |-> 0,
                list |-> [i \in 1..MaxLiveFormRows |-> NoRow]] : w \in Principals}

NextLiveForm ==
  \/ LiveOpenNew
  \/ \E id \in 1..MaxLiveFormRows : LiveHandleEdit(id)
  \/ \E h \in HostNames, n \in HourValues : LiveChangeForm(h, n)
  \/ \E net \in Network : LiveHandleSubmit(net)
  \/ \E p \in Principals, n \in HourValues : ReqInsertLog(p, n)
  \/ LiveFetchLogs

SpecLiveForm == InitLiveForm /\ [][NextLiveForm]_vars

\* C24: a submission with a host name empty after trim, or with hours not
\* above zero, sends no request and leaves the modal, the form and the list
\* as they are; the store refuses rows with negative hours, so that no
\* stored row has any.
C24_ValidationBeforeStore ==
  /\ [][ (last'.op = "LiveHost.handleSubmit"
            /\ (Trim(view.host_name) = "" \/ view.total_hours <= 0))
           => (last'.arg = "no request" /\ view' = view /\ db' = db) ]_vars
  /\ [](\A i \in DOMAIN db : db[i].tbl = "live_manual_log" => db[i].amount >= 0)
  /\ []((last.op = "insert" /\ last.num < 0) => ~last.ok)

\* the form was submitted with a name and zero hours while editing a log:
\* nothing was sent and the modal is still open on it
C24_Witness ==
  /\ last.op = "LiveHost.handleSubmit" /\ last.arg = "no request"
  /\ view.showModal /\ view.editing # 0
  /\ Trim(view.host_name) # "" /\ view.total_hours = 0

---------------------------------------------------------------------------
(* Overlapping calls of fetchProjects on one Projects page.  Each call     *)
(* sends a select and, when its answer comes, replaces the list with it;   *)
(* the answers of calls in flight come in any order.  In this part view is *)
(* the page: who uses it, the list, the answers under way in the order the *)
(* calls were made, and the answer of the call made last.                  *)

\* fetchProjects calls in flight at a time
MaxFlights == 2

\* number of row slots of the store in this part
MaxOverlapRows == 2

\* fetchProjects is called (mount, profile load, realtime event); the store
\* answers with the rows of that moment
FetchProjectsCalled ==
  /\ Len(view.flights) < MaxFlights
  /\ view' = [view EXCEPT !.flights = Append(@, FormFetched(db, view.who, "projects")),
                          !.latest = FormFetched(db, view.who, "projects")]
  /\ last' = Request("fetchProjects", view.who, "projects", 0, NULL, "-", TRUE)
  /\ UNCHANGED <<user_profiles, db, profile>>

\* handleSubmit (create) or handleDelete of the page's user, up to the
\* fetchProjects() they end with, which is not awaited
ProjectWrite(id) ==
  /\ Len(view.flights) < MaxFlights
  /\ LET new == DefaultRow("projects", view.who)
         ok == IF RowExists(db, id) THEN DeleteAccepted(view.who, db, id)
               ELSE id = NewId(db) /\ InsertAccepted(view.who, db, new)
         after == IF ~ok THEN db
                  ELSE IF RowExists(db, id) THEN AfterDelete(db, id)
                  ELSE [db EXCEPT ![id] = new]
     IN  /\ ok
         /\ db' = after
         /\ view' = [view EXCEPT !.flights = Append(@, FormFetched(after, view.who, "projects")),
                                 !.latest = FormFetched(after, view.who, "projects")]
         /\ last' = Request(IF RowExists(db, id) THEN "handleDelete" ELSE "handleSubmit",
                            view.who, "projects", id, view.who, "-", ok)
  /\ UNCHANGED <<user_profiles, profile>>

\* the answer of the i-th call in flight arrives: setProjects(data)
FetchProjectsAnswered(i) ==
  /\ i \in 1..Len(view.flights)
  /\ view' = [view EXCEPT
                !.list = view.flights[i],
                !.flights = [j \in 1..(Len(view.flights) - 1) |->
                               IF j < i THEN view.flights[j] ELSE view.flights[j + 1]]]
  /\ last' = [Request("setProjects", view.who, "projects", 0, NULL, "-", TRUE) EXCEPT !.num = i]
  /\ UNCHANGED <<user_profiles, db, profile>>

InitOverlap ==
  /\ user_profiles = UserAndAdmin
  /\ db = [i \in 1..MaxOverlapRows |-> NoRow]
  /\ profile = user_profiles
  /\ last = NoRequest
  /\ view \in {[who |-> w, list |-> db, flights |-> <<>>, latest |-> db] : w \in Principals}

NextOverlap ==
  \/ FetchProjectsCalled
  \/ \E id \in 1..MaxOverlapRows : ProjectWrite(id)
  \/ \E i \in 1..MaxFlights : FetchProjectsAnswered(i)

SpecOverlap == InitOverlap /\ [][NextOverlap]_vars

\* C28: with no call of fetchProjects in flight, the list is the answer of
\* the call made last.
C28_LatestFetchWins ==
  view.flights = <<>> => view.list = view.latest

---------------------------------------------------------------------------
(* The Tasks page of the non-admin u1 while the store holds a task of u2   *)
(* that is assigned to u1: the page and the store requests are those of    *)
(* the realtime part above.                                                 *)

InitAssigned ==
  /\ user_profiles = UserAndAdmin
  /\ db = [i \in RealtimeIds |->
             IF i = 1 THEN [DefaultRow("tasks", "u2") EXCEPT !.assigned_to = "u1"] ELSE NoRow]
  /\ profile = user_profiles
  /\ last = NoRequest
  /\ view = [who |-> "u1", user |-> "u1", mounted |-> FALSE, table |-> "tasks", channels |-> <<>>,
             pending |-> <<>>, list |-> [i \in RealtimeIds |-> NoRow]]

NextAssigned ==
  \/ PageMount
  \/ PageUnmount
  \/ \E q \in Principals, o \in Principals : StoreInsert(q, o)
  \/ \E q \in Principals, id \in RealtimeIds : StoreUpdate(q, id)
  \/ \E q \in Principals, id \in RealtimeIds : StoreDelete(q, id)
  \/ Deliver

\* an event that waits is handed to its callback
SpecAssigned == InitAssigned /\ [][NextAssigned]_vars /\ WF_vars(Deliver)

\* C29: while the Tasks page of a non-admin stays mounted, a list that a
\* committed change has put behind the store (the tasks the principal owns
\* or is assigned, as fetchTasks would list them now) is fetched again.
C29_AssignedTaskRefetched ==
  (view.mounted /\ view.list # FetchedNow) ~> (view.list = FetchedNow \/ ~view.mounted)

---------------------------------------------------------------------------
(* The range of tasks.progress: the Tasks page of the part above, and      *)
(* updates of progress that do not come from the page.                     *)

\* supabase.from('tasks').update({progress}).eq('id', id) with a progress
\* just outside the CHECK of the table
ReqUpdateProgress(p, id, progress) ==
  /\ RowExists(db, id) /\ db[id].tbl = "tasks"
  /\ progress \in {MinProgress - 1, MaxProgress + 1}
  /\ LET new == [db[id] EXCEPT !.progress = progress]
         ok == UpdateAccepted(p, db, id, new)
     IN  /\ db' = IF ok THEN [db EXCEPT ![id] = new] ELSE db
         /\ last' = [Request("update", p, "tasks", id, db[id].owner, "-", ok)
                       EXCEPT !.num = progress]
  /\ UNCHANGED <<user_profiles, profile, view>>

NextProgress ==
  \/ NextTasks
  \/ \E p \in Principals, id \in RowIds, n \in (MinProgress - 1)..(MaxProgress + 1) :
       ReqUpdateProgress(p, id, n)

SpecProgress == InitTasks /\ [][NextProgress]_vars

\* C30: every stored task has a progress in 0..100; the buttons and the
\* form ask for values in 0..100 only; an update with a progress below 0 or
\* above 100 is refused.
C30_ProgressInRange ==
  /\ \A i \in DOMAIN db : db[i].tbl = "tasks" => db[i].progress \in 0..100
  /\ last.op \in {"updateProgress", "handleSubmit"} => last.num \in 0..100
  /\ (last.op = "update" /\ last.num \notin 0..100) => ~last.ok

\* an update to 101 of a task that the buttons had brought to 100 was
\* refused by its owner's own session
C30_Witness ==
  /\ last.op = "update" /\ last.num = 101 /\ ~last.ok
  /\ last.by = last.owner
  /\ db[last.id].progress = 100 /\ db[last.id].status = "Completed"

=============================================================================
